---- MODULE Spec2Model ----
(***************************************************************************)
(* A model of the go-stremio request-routing and response-shaping layer:   *)
(* the catalog/stream dispatch handler (handlers.go, createHandler), the   *)
(* manifest endpoint (createManifestHandler) and Manifest.clone            *)
(* (types.go).                                                             *)
(*                                                                         *)
(* Byte strings are modelled as sequences of tokens (strings), so that     *)
(* concatenation, formatting and serialisation are computed, not assumed.  *)
(***************************************************************************)
EXTENDS Integers, Sequences, FiniteSets, TLC

VARIABLES
    phase,      \* "new" | "rejected" | "serving": NewAddon not yet called / returned an error / Run is serving
    opts,       \* the Options passed to NewAddon
    userDataType, \* TRUE iff RegisterUserData was called (Addon.userDataType # nil)
    catalogHandlers, \* Addon.catalogHandlers: media type -> CatalogHandler
    streamHandlers,  \* Addon.streamHandlers: media type -> StreamHandler
    rangeLast,  \* per family, the key the `for k, v := range` loop visited last
    exch,       \* the last request/response exchange of the dispatch handler
    validated,  \* when that request carried the previous response's ETag: that previous exchange
    manifest,   \* the Manifest struct the addon holds (Addon.manifest)
    heap,       \* the backing arrays of all slices: address -> array
    copy,       \* the Manifest struct returned by clone(), once it was called
    touched,    \* how many writes were made through the original (m) and through the clone (c)
    manifestCallback,        \* whether a ManifestCallback is registered (Addon.manifestCallback != nil)
    manifestBody,            \* json.Marshal(manifest), made when the handler is created
    configuredManifestBody,  \* json.Marshal(configuredManifest), made when the handler is created
    declared,   \* the manifest passed to NewAddon, as a value
    reqs,       \* the manifest requests in flight or answered, by goroutine
    udx,        \* the last request with a user data segment: what was decoded and who received it
    rx,         \* the last catalog or stream request as it went through the route matcher
    lg,         \* the request the logging middleware is working on, and its lookup goroutine
    cm          \* the Cinemeta client of the addon: who made it, its cache, the clock and its last lookup

dispatchVars == <<phase, opts, userDataType, catalogHandlers, streamHandlers, rangeLast, exch, validated>>
cloneVars == <<manifest, heap, copy, touched>>
manifestVars == <<manifestCallback, manifestBody, configuredManifestBody, declared, reqs>>
\* The variables of the parts of the addon described further below.
restVars == <<udx, rx, lg, cm>>
vars == <<dispatchVars, cloneVars, manifestVars, restVars>>

----------------------------------------------------------------------------
(* Bounds of the model *)

\* The digest stands for xxhash.Sum64; it is computed modulo this number.
HashMod == 251
\* Writes made through a manifest and its clone after clone() returned.
MaxCloneMut == 2
\* Writes the manifest callbacks running at one time make to their clones.
MaxCallbackMut == 1

----------------------------------------------------------------------------
(* HTTP status codes (fiber.Status...) *)

StatusOK == 200
StatusNotModified == 304
StatusBadRequest == 400
StatusNotFound == 404
StatusInternalServerError == 500

----------------------------------------------------------------------------
(* Small domains the inputs are drawn from *)

Families == {"catalog", "stream"}
MediaTypes == {"movie", "series", "tv"}
\* Handler functions supplied by the SDK user, by identity.
CatalogHandlerIds == {"catMovie", "catSeries"}
StreamHandlerIds == {"strMovie", "strSeries"}
\* time.Duration values of the cache age options, in milliseconds.
CacheAges == {0, 1500}
\* Media IDs as they arrive in the path: one that unescapes, one with a broken percent escape.
MediaIDs == {"tt1254207", "tt%zz"}
\* User data path segments: absent, decodable, undecodable.
UserDataTokens == {"", "good", "bad"}
\* If-None-Match request header values besides the ETag of the previous response.
IfNoneMatchValues == {<<>>, <<"*">>, <<"s", "t", "a", "l", "e">>}

\* A Go slice returned by a handler: nil, or a (possibly empty) list.
NilResult == [nil |-> TRUE, items |-> <<>>]
ResultLists == {NilResult} \cup
    {[nil |-> FALSE, items |-> s] : s \in {<<>>, <<"item1">>}}
\* What a handler returns: (result, error).
HandlerErrors == {"nil", "NotFound", "BadRequest", "other"}
HandlerReturns == {[res |-> r, err |-> "nil"] : r \in ResultLists} \cup
    {[res |-> NilResult, err |-> e] : e \in HandlerErrors \ {"nil"}}

----------------------------------------------------------------------------
(* Formatting and hashing *)

DecDigits == <<"0", "1", "2", "3", "4", "5", "6", "7", "8", "9">>
HexDigits == <<"0", "1", "2", "3", "4", "5", "6", "7", "8", "9", "a", "b", "c", "d", "e", "f">>

RECURSIVE FormatBase(_, _)
\* strconv.FormatUint(n, base) / FormatFloat(n, 'f', 0, 64) of a non-negative whole number.
FormatBase(n, digits) ==
    IF n < Len(digits) THEN <<digits[n + 1]>>
    ELSE FormatBase(n \div Len(digits), digits) \o <<digits[(n % Len(digits)) + 1]>>

FormatUint16(n) == FormatBase(n, HexDigits)

\* math.Round(cacheAge.Seconds()) for a non-negative duration in milliseconds: half away from zero.
RoundSeconds(ms) == (ms + 500) \div 1000

\* A number for every token a body is made of.
TokenCode(tok) ==
    CASE tok = "null" -> 1
      [] tok = "[" -> 2
      [] tok = "]" -> 3
      [] tok = "," -> 4
      [] tok = "item1" -> 5
      [] tok = "item2" -> 6
      [] OTHER -> 7

RECURSIVE Sum64(_)
\* xxhash.Sum64(resBody): a deterministic digest of the body's bytes alone.
Sum64(body) ==
    IF body = <<>> THEN 17
    ELSE (31 * Sum64(SubSeq(body, 1, Len(body) - 1)) + TokenCode(body[Len(body)])) % HashMod

RECURSIVE JoinItems(_)
JoinItems(items) ==
    IF Len(items) = 0 THEN <<>>
    ELSE IF Len(items) = 1 THEN <<items[1]>>
    ELSE <<items[1], ",">> \o JoinItems(Tail(items))

\* json.Marshal(res) of a []MetaPreviewItem / []StreamItem: a nil slice is "null".
MarshalResult(res) ==
    IF res.nil THEN <<"null">> ELSE <<"[">> \o JoinItems(res.items) \o <<"]">>

----------------------------------------------------------------------------
(* NewAddon: the precondition checks on the options and handlers *)

\* A Go map: nil, or a function from its keys.
NilMap == [nil |-> TRUE, m |-> <<>>]
MakeMap(f) == [nil |-> FALSE, m |-> f]

\* The checks without the one on ETag handling.
NewAddonErrorNoEtagCheck(cat, str, o) ==
    \/ cat.nil /\ str.nil
    \/ (o.CachePublicCatalogs /\ o.CacheAgeCatalogs = 0) \/ (o.CachePublicStreams /\ o.CacheAgeStreams = 0)

\* NewAddon returns (nil, error) exactly when this holds.
NewAddonError(cat, str, o) ==
    \/ cat.nil /\ str.nil
    \/ (o.CachePublicCatalogs /\ o.CacheAgeCatalogs = 0) \/ (o.CachePublicStreams /\ o.CacheAgeStreams = 0)
    \/ (o.HandleEtagCatalogs /\ o.CacheAgeCatalogs = 0) \/ (o.HandleEtagStreams /\ o.CacheAgeStreams = 0)

----------------------------------------------------------------------------
(* createCatalogHandler / createStreamHandler *)

\* The map of closures `handlers[k] = func(...) { return v(...) }` built by
\* `for k, v := range catalogHandlers`. The module's go directive is 1.16, where
\* the loop has ONE variable v for all iterations: every closure reads v when it
\* is called, after the loop, when v holds the value of the key visited last.
WrapHandlers(table, last) == [k \in DOMAIN table |-> table[last]]

\* Both families are given the cache age of the streams.
HandlerParamsOneCacheAge(family) ==
    IF family = "catalog"
    THEN [handlers |-> WrapHandlers(catalogHandlers.m, rangeLast.catalog),
          jsonArrayKey |-> "metas",
          cacheAge |-> opts.CacheAgeStreams,
          cachePublic |-> opts.CachePublicCatalogs,
          handleEtag |-> opts.HandleEtagCatalogs]
    ELSE [handlers |-> WrapHandlers(streamHandlers.m, rangeLast.stream),
          jsonArrayKey |-> "streams",
          cacheAge |-> opts.CacheAgeStreams,
          cachePublic |-> opts.CachePublicStreams,
          handleEtag |-> opts.HandleEtagStreams]

\* The parameters Run passes to createHandler for a resource family.
HandlerParams(family) ==
    IF family = "catalog"
    THEN [handlers |-> WrapHandlers(catalogHandlers.m, rangeLast.catalog),
          jsonArrayKey |-> "metas",
          cacheAge |-> opts.CacheAgeCatalogs,
          cachePublic |-> opts.CachePublicCatalogs,
          handleEtag |-> opts.HandleEtagCatalogs]
    ELSE [handlers |-> WrapHandlers(streamHandlers.m, rangeLast.stream),
          jsonArrayKey |-> "streams",
          cacheAge |-> opts.CacheAgeStreams,
          cachePublic |-> opts.CachePublicStreams,
          handleEtag |-> opts.HandleEtagStreams]

\* The table the SDK user registered for a family.
Registered(family) == IF family = "catalog" THEN catalogHandlers ELSE streamHandlers

----------------------------------------------------------------------------
(* createHandler *)

\* cacheHeaderVal, computed once per handler; the empty string when cacheAge is 0.
cacheHeaderVal(cacheAge, cachePublic) ==
    IF cacheAge # 0
    THEN <<"max-age=">> \o FormatBase(RoundSeconds(cacheAge), DecDigits)
            \o (IF cachePublic THEN <<", public">> ELSE <<", private">>)
    ELSE <<>>

\* url.PathUnescape(requestedID): an error for a broken percent escape.
PathUnescapeFails(s) == s = "tt%zz"

\* decodeUserData: base64/percent decoding, then json.Unmarshal into a new object.
decodeUserData(data) ==
    IF data = "bad"
    THEN [err |-> TRUE, val |-> "nil"]
    ELSE [err |-> FALSE, val |-> "ptr"]

\* c.SendStatus(status): the status and, the body being empty, fiber's status message.
SendStatus(status) == [status |-> status, body |-> <<"status message">>, headers |-> <<>>]

\* ErrorStatus without the BadRequest case.
ErrorStatusNoBadRequest(err) ==
    CASE err = "NotFound" -> StatusNotFound
      [] OTHER -> StatusInternalServerError

\* The switch on the handler's error.
ErrorStatus(err) ==
    CASE err = "NotFound" -> StatusNotFound
      [] err = "BadRequest" -> StatusBadRequest
      [] OTHER -> StatusInternalServerError

\* eTag = strconv.FormatUint(xxhash.Sum64(resBody), 16)
ETagOf(resBody) == FormatUint16(Sum64(resBody))

\* `modified` without the branch for "*".
ModifiedNoWildcard(ifNoneMatch, eTag) == ifNoneMatch # eTag

\* `modified` of the ETag block.
Modified(ifNoneMatch, eTag) ==
    IF ifNoneMatch = <<"*">> THEN FALSE
    ELSE IF ifNoneMatch # eTag THEN TRUE
    ELSE FALSE

\* The 304 response without its Cache-Control header.
NotModifiedResponseNoCacheControl(chv, eTag) ==
    [status |-> StatusNotModified, body |-> <<"status message">>, headers |-> ("ETag" :> eTag)]

\* The 304 response: Cache-Control and ETag are set unconditionally.
NotModifiedResponse(chv, eTag) ==
    [status |-> StatusNotModified, body |-> <<"status message">>,
     headers |-> ("Cache-Control" :> chv) @@ ("ETag" :> eTag)]

\* resBody wrapped as {"<jsonArrayKey>":<resBody>} by concatenation.
WrapBody(jsonArrayKey, resBody) == <<"{\"", jsonArrayKey, "\"", ":">> \o resBody \o <<"}">>

\* The 200 response and its headers.
OkResponse(jsonArrayKey, resBody, chv, handleEtag, eTag) ==
    [status |-> StatusOK, body |-> WrapBody(jsonArrayKey, resBody),
     headers |-> ("Content-Type" :> <<"application/json">>)
        @@ (IF chv # <<>> THEN ("Cache-Control" :> chv) ELSE <<>>)
        @@ (IF chv # <<>> /\ handleEtag THEN ("ETag" :> eTag) ELSE <<>>)]

\* The 304 carries the If-None-Match value of the request as its ETag.
RespondResultEchoETag(p, req, res) ==
    LET resBody == MarshalResult(res)
        chv == cacheHeaderVal(p.cacheAge, p.cachePublic)
        eTag == IF p.handleEtag THEN ETagOf(resBody) ELSE <<>>
    IN IF p.handleEtag /\ ~Modified(req.inm, eTag)
       THEN NotModifiedResponse(chv, req.inm)
       ELSE OkResponse(p.jsonArrayKey, resBody, chv, p.handleEtag, eTag)

\* The part of the handler after a successful handler call.
RespondResult(p, req, res) ==
    LET resBody == MarshalResult(res)
        chv == cacheHeaderVal(p.cacheAge, p.cachePublic)
        eTag == IF p.handleEtag THEN ETagOf(resBody) ELSE <<>>
    IN IF p.handleEtag /\ ~Modified(req.inm, eTag)
       THEN NotModifiedResponse(chv, eTag)
       ELSE OkResponse(p.jsonArrayKey, resBody, chv, p.handleEtag, eTag)

NoReturn == [res |-> NilResult, err |-> "none"]
\* A request that ends before the handler call.
Early(status) == [calls |-> <<>>, arg |-> "none", returned |-> NoReturn, resp |-> SendStatus(status)]

\* The early returns with the user data decoded before the type is looked up.
EarlyStatusDecodeFirst(p, req) ==
    IF PathUnescapeFails(req.id) THEN StatusBadRequest
    ELSE IF userDataType /\ req.userData # "" /\ decodeUserData(req.userData).err THEN StatusBadRequest
    ELSE IF req.type \notin DOMAIN p.handlers THEN StatusNotFound
    ELSE 0

\* The handler's steps before the call of the registered handler: the status of
\* the early return, or 0 when the registered handler is called.
EarlyStatus(p, req) ==
    IF PathUnescapeFails(req.id) THEN StatusBadRequest
    ELSE IF req.type \notin DOMAIN p.handlers THEN StatusNotFound
    ELSE IF userDataType /\ req.userData # "" /\ decodeUserData(req.userData).err THEN StatusBadRequest
    ELSE 0

\* The userData argument of the handler call.
UserDataArg(token) ==
    IF ~userDataType THEN token
    ELSE IF token = "" THEN "nil"
    ELSE "ptr:" \o token

\* The fiber.Handler createHandler returns, applied to a request; ret is what the
\* registered handler returns when it is called.
Dispatch(p, req, ret) ==
    IF EarlyStatus(p, req) # 0 THEN Early(EarlyStatus(p, req))
    ELSE [calls |-> <<p.handlers[req.type]>>,
          arg |-> UserDataArg(req.userData),
          returned |-> ret,
          resp |-> IF ret.err # "nil" THEN SendStatus(ErrorStatus(ret.err))
                   ELSE RespondResult(p, req, ret.res)]

----------------------------------------------------------------------------
(* The dispatch state machine *)

NoExchange == [family |-> "none"]

BoolOptions == [CachePublicCatalogs : BOOLEAN, CachePublicStreams : BOOLEAN,
                HandleEtagCatalogs : BOOLEAN, HandleEtagStreams : BOOLEAN]
AllOptions == {[CacheAgeCatalogs |-> a, CacheAgeStreams |-> b,
                CachePublicCatalogs |-> o.CachePublicCatalogs, CachePublicStreams |-> o.CachePublicStreams,
                HandleEtagCatalogs |-> o.HandleEtagCatalogs, HandleEtagStreams |-> o.HandleEtagStreams] :
                    a \in CacheAges, b \in CacheAges, o \in BoolOptions}

Cat2 == MakeMap(("movie" :> "catMovie") @@ ("series" :> "catSeries"))
Str1 == MakeMap("movie" :> "strMovie")
Str2 == MakeMap(("movie" :> "strMovie") @@ ("series" :> "strSeries"))
\* The (catalogHandlers, streamHandlers) pairs NewAddon is called with.
HandlerTables == {<<Cat2, Str1>>, <<NilMap, Str2>>, <<NilMap, NilMap>>}

\* The keys a range loop over the map can visit last ("" for a nil map).
LastKeys(table) == IF table.nil THEN {""} ELSE DOMAIN table.m

\* No request with user data was looked at.
NoUserDataExchange == [site |-> "none"]
\* No request went through the route matcher.
NoRouteExchange == [kind |-> "none"]
\* The logging middleware has no request.
IdleLogging ==
    [pc |-> "idle", path |-> [userData |-> <<"none">>, endpoint |-> "none", type |-> "", id |-> <<>>],
     isStream |-> FALSE, wg |-> 0, g |-> "none",
     lookup |-> [found |-> FALSE, step |-> "none", meta |-> [Name |-> "", ReleaseInfo |-> ""]],
     mediaName |-> <<>>, locals |-> <<>>, status |-> 0, lines |-> <<>>]
\* No addon was built with a Cinemeta client.
NoLookup == [id |-> "", at |-> 0, cached |-> FALSE, created |-> 0, remote |-> FALSE, found |-> FALSE]
NoCinemeta == [pc |-> "idle", client |-> "nil", ttl |-> 0, cache |-> <<>>, now |-> 0, last |-> NoLookup]
RestIdle ==
    udx = NoUserDataExchange /\ rx = NoRouteExchange /\ lg = IdleLogging /\ cm = NoCinemeta

\* The manifest plays no part in the dispatch handler.
NoManifest == [none |-> TRUE]
CloneIdle == manifest = NoManifest /\ heap = <<>> /\ copy = NoManifest /\ touched = [m |-> 0, c |-> 0]

\* A manifest request that has not arrived.
NoResponse == [status |-> 0, body |-> <<>>, headers |-> <<>>]
IdleRequest ==
    [pc |-> "idle", configured |-> FALSE, called |-> FALSE, userData |-> "", clone |-> NoManifest,
     given |-> NoManifest, muts |-> 0, returned |-> 0, flag |-> FALSE, resp |-> NoResponse]
Goroutines == {"g1", "g2"}
ManifestIdle ==
    /\ manifestCallback = FALSE /\ manifestBody = <<>> /\ configuredManifestBody = <<>>
    /\ declared = NoManifest /\ reqs = [g \in Goroutines |-> IdleRequest]

DispatchInit ==
    /\ phase = "new"
    /\ opts \in AllOptions
    /\ userDataType \in BOOLEAN
    /\ \E t \in HandlerTables : catalogHandlers = t[1] /\ streamHandlers = t[2]
    /\ rangeLast = [catalog |-> "", stream |-> ""]
    /\ exch = NoExchange
    /\ validated = NoExchange
    /\ CloneIdle /\ ManifestIdle /\ RestIdle

\* NewAddon returns an error: no addon exists and nothing can be run.
NewAddonFails ==
    /\ phase = "new"
    /\ NewAddonError(catalogHandlers, streamHandlers, opts)
    /\ phase' = "rejected"
    /\ UNCHANGED <<opts, userDataType, catalogHandlers, streamHandlers, rangeLast, exch, validated>>
    /\ UNCHANGED <<cloneVars, manifestVars, restVars>>

\* NewAddon succeeds and Run builds the handlers; the range loops visit the maps' keys in some order.
Run ==
    /\ phase = "new"
    /\ ~NewAddonError(catalogHandlers, streamHandlers, opts)
    /\ phase' = "serving"
    /\ \E c \in LastKeys(catalogHandlers), s \in LastKeys(streamHandlers) :
          rangeLast' = [catalog |-> c, stream |-> s]
    /\ UNCHANGED <<opts, userDataType, catalogHandlers, streamHandlers, exch, validated>>
    /\ UNCHANGED <<cloneVars, manifestVars, restVars>>

\* What the client keeps of an exchange: the status, the headers and what the handler returned.
Summary(e) ==
    [family |-> e.family, conditional |-> e.inm # <<>>, returned |-> e.returned,
     status |-> e.resp.status, headers |-> e.resp.headers]

\* The ETag header of the previous response, if it carried one.
PrevETags == IF exch.family # "none" /\ "ETag" \in DOMAIN exch.resp.headers
             THEN {exch.resp.headers["ETag"]} ELSE {}

\* The requests of the model: every media type with every If-None-Match value,
\* with every user data token, and with both media IDs.
Requests(etags) ==
    {[type |-> t, id |-> "tt1254207", userData |-> "", inm |-> i] :
        t \in MediaTypes, i \in IfNoneMatchValues \cup etags}
    \cup {[type |-> t, id |-> id, userData |-> u, inm |-> <<>>] :
        t \in MediaTypes, id \in MediaIDs, u \in UserDataTokens}

\* One catalog or stream request, handled from routing to response.
HandleRequest ==
    /\ phase = "serving"
    /\ \E family \in Families, req \in Requests(PrevETags) :
          /\ ~Registered(family).nil   \* Run registers the family's routes only for a non-nil map
          /\ \E p \in {HandlerParams(family)} :
             \E ret \in (IF EarlyStatus(p, req) = 0 THEN HandlerReturns ELSE {NoReturn}) :
             \E d \in {Dispatch(p, req, ret)} :
                exch' = [family |-> family, type |-> req.type, id |-> req.id, userData |-> req.userData,
                         inm |-> req.inm, calls |-> d.calls, arg |-> d.arg, returned |-> d.returned,
                         resp |-> d.resp]
          /\ validated' = IF req.inm \in PrevETags THEN Summary(exch) ELSE NoExchange
    /\ UNCHANGED <<phase, opts, userDataType, catalogHandlers, streamHandlers, rangeLast>>
    /\ UNCHANGED <<cloneVars, manifestVars, restVars>>

DispatchNext == NewAddonFails \/ Run \/ HandleRequest

Spec == DispatchInit /\ [][DispatchNext]_vars

----------------------------------------------------------------------------
(* The Manifest and the memory its slices point into                       *)
(*                                                                         *)
(* A Go slice value is modelled by the address of its backing array        *)
(* (NilAddr for a nil slice); `heap` maps addresses to arrays. Copying a   *)
(* struct copies the addresses, not the arrays.                            *)

NilAddr == 0

\* Where the allocator places the arrays made at startup and those made by each
\* goroutine: an address tells nothing but which array it is.
Arena == [main |-> 0, g1 |-> 100, g2 |-> 200]

\* The smallest address of the arena that is not in use.
Fresh(h, arena) ==
    CHOOSE a \in (arena + 1)..(arena + Cardinality(DOMAIN h) + 1) :
        a \notin DOMAIN h /\ \A b \in (arena + 1)..(a - 1) : b \in DOMAIN h

\* make([]T, len) filled with arr: a new backing array.
Alloc(h, arr, arena) == [addr |-> Fresh(h, arena), heap |-> (Fresh(h, arena) :> arr) @@ h]

\* A slice as a value: absent (nil), or the list of its elements.
NilSlice == [nil |-> TRUE, elems |-> <<>>]
Slice(elems) == [nil |-> FALSE, elems |-> elems]

(* Storing a literal (a value with nested lists) in memory *)

StoreSlice(v, h, arena) ==
    IF v.nil THEN [addr |-> NilAddr, heap |-> h] ELSE Alloc(h, v.elems, arena)

StoreResourceItem(v, h, arena) ==
    LET t == StoreSlice(v.Types, h, arena)
        i == StoreSlice(v.IDprefixes, t.heap, arena)
    IN [val |-> [Name |-> v.Name, Types |-> t.addr, IDprefixes |-> i.addr], heap |-> i.heap]

StoreExtraItem(v, h, arena) ==
    LET o == StoreSlice(v.Options, h, arena)
    IN [val |-> [Name |-> v.Name, IsRequired |-> v.IsRequired, Options |-> o.addr,
                 OptionsLimit |-> v.OptionsLimit],
        heap |-> o.heap]

RECURSIVE StoreExtraItems(_, _, _)
StoreExtraItems(vs, h, arena) ==
    IF vs = <<>> THEN [vals |-> <<>>, heap |-> h]
    ELSE LET x == StoreExtraItem(Head(vs), h, arena)
             r == StoreExtraItems(Tail(vs), x.heap, arena)
         IN [vals |-> <<x.val>> \o r.vals, heap |-> r.heap]

StoreCatalogItem(v, h, arena) ==
    LET e == IF v.Extra.nil THEN [addr |-> NilAddr, heap |-> h]
             ELSE LET r == StoreExtraItems(v.Extra.elems, h, arena) IN Alloc(r.heap, r.vals, arena)
    IN [val |-> [Type |-> v.Type, ID |-> v.ID, Name |-> v.Name, Extra |-> e.addr], heap |-> e.heap]

RECURSIVE StoreResourceItems(_, _, _)
StoreResourceItems(vs, h, arena) ==
    IF vs = <<>> THEN [vals |-> <<>>, heap |-> h]
    ELSE LET x == StoreResourceItem(Head(vs), h, arena)
             r == StoreResourceItems(Tail(vs), x.heap, arena)
         IN [vals |-> <<x.val>> \o r.vals, heap |-> r.heap]

RECURSIVE StoreCatalogItems(_, _, _)
StoreCatalogItems(vs, h, arena) ==
    IF vs = <<>> THEN [vals |-> <<>>, heap |-> h]
    ELSE LET x == StoreCatalogItem(Head(vs), h, arena)
             r == StoreCatalogItems(Tail(vs), x.heap, arena)
         IN [vals |-> <<x.val>> \o r.vals, heap |-> r.heap]

\* The Manifest struct of a literal, and the memory holding its lists.
StoreManifest(v, h, arena) ==
    LET ri == IF v.ResourceItems.nil THEN [addr |-> NilAddr, heap |-> h]
              ELSE LET r == StoreResourceItems(v.ResourceItems.elems, h, arena) IN Alloc(r.heap, r.vals, arena)
        ty == StoreSlice(v.Types, ri.heap, arena)
        ca == IF v.Catalogs.nil THEN [addr |-> NilAddr, heap |-> ty.heap]
              ELSE LET r == StoreCatalogItems(v.Catalogs.elems, ty.heap, arena) IN Alloc(r.heap, r.vals, arena)
        ip == StoreSlice(v.IDprefixes, ca.heap, arena)
    IN [val |-> [ID |-> v.ID, Name |-> v.Name, Description |-> v.Description, Version |-> v.Version,
                 ResourceItems |-> ri.addr, Types |-> ty.addr, Catalogs |-> ca.addr,
                 IDprefixes |-> ip.addr, Background |-> v.Background, Logo |-> v.Logo,
                 ContactEmail |-> v.ContactEmail, BehaviorHints |-> v.BehaviorHints],
        heap |-> ip.heap]

(* Reading a struct back as a value: what reflect.DeepEqual and a reader see *)

LoadSlice(a, h) == IF a = NilAddr THEN NilSlice ELSE Slice(h[a])

LoadResourceItem(x, h) ==
    [Name |-> x.Name, Types |-> LoadSlice(x.Types, h), IDprefixes |-> LoadSlice(x.IDprefixes, h)]

LoadExtraItem(x, h) ==
    [Name |-> x.Name, IsRequired |-> x.IsRequired, Options |-> LoadSlice(x.Options, h),
     OptionsLimit |-> x.OptionsLimit]

LoadCatalogItem(x, h) ==
    [Type |-> x.Type, ID |-> x.ID, Name |-> x.Name,
     Extra |-> IF x.Extra = NilAddr THEN NilSlice
               ELSE Slice([i \in 1..Len(h[x.Extra]) |-> LoadExtraItem(h[x.Extra][i], h)])]

DeepValue(m, h) ==
    [ID |-> m.ID, Name |-> m.Name, Description |-> m.Description, Version |-> m.Version,
     ResourceItems |-> IF m.ResourceItems = NilAddr THEN NilSlice
                       ELSE Slice([i \in 1..Len(h[m.ResourceItems]) |->
                                        LoadResourceItem(h[m.ResourceItems][i], h)]),
     Types |-> LoadSlice(m.Types, h),
     Catalogs |-> IF m.Catalogs = NilAddr THEN NilSlice
                  ELSE Slice([i \in 1..Len(h[m.Catalogs]) |-> LoadCatalogItem(h[m.Catalogs][i], h)]),
     IDprefixes |-> LoadSlice(m.IDprefixes, h),
     Background |-> m.Background, Logo |-> m.Logo, ContactEmail |-> m.ContactEmail,
     BehaviorHints |-> m.BehaviorHints]

\* The addresses reachable from a Manifest struct.
Reach(m, h) ==
    LET top == {m.ResourceItems, m.Types, m.Catalogs, m.IDprefixes} \ {NilAddr}
        ris == IF m.ResourceItems = NilAddr THEN {}
               ELSE UNION {{h[m.ResourceItems][i].Types, h[m.ResourceItems][i].IDprefixes} :
                                i \in 1..Len(h[m.ResourceItems])}
        exs == IF m.Catalogs = NilAddr THEN {}
               ELSE {h[m.Catalogs][i].Extra : i \in 1..Len(h[m.Catalogs])} \ {NilAddr}
        ops == UNION {{h[e][j].Options : j \in 1..Len(h[e])} : e \in exs}
    IN (top \cup ris \cup exs \cup ops) \ {NilAddr}

\* The garbage collector: only the arrays reachable from the live structs remain.
Collect(h, roots) == [a \in UNION {Reach(m, h) : m \in roots} |-> h[a]]

----------------------------------------------------------------------------
(* Manifest.clone and the clone methods of its items (types.go) *)

\* `c = make([]string, len(s)); for i, x := range s { c[i] = x }` without the nil test.
cloneStringsAlways(a, h, arena) == Alloc(h, IF a # NilAddr THEN h[a] ELSE <<>>, arena)

\* `if s != nil { c = make([]string, len(s)); for i, x := range s { c[i] = x } }`
cloneStrings(a, h, arena) ==
    IF a # NilAddr THEN Alloc(h, h[a], arena) ELSE [addr |-> NilAddr, heap |-> h]

\* ResourceItem.clone
ResourceItemClone(ri, h, arena) ==
    LET types == cloneStrings(ri.Types, h, arena)
        idPrefixes == cloneStrings(ri.IDprefixes, types.heap, arena)
    IN [val |-> [Name |-> ri.Name, Types |-> types.addr, IDprefixes |-> idPrefixes.addr],
        heap |-> idPrefixes.heap]

\* ExtraItem.clone copying the struct, its Options slice included.
ExtraItemCloneShallow(ei, h, arena) == [val |-> ei, heap |-> h]

\* ExtraItem.clone
ExtraItemClone(ei, h, arena) ==
    LET options == cloneStrings(ei.Options, h, arena)
    IN [val |-> [Name |-> ei.Name, IsRequired |-> ei.IsRequired, Options |-> options.addr,
                 OptionsLimit |-> ei.OptionsLimit],
        heap |-> options.heap]

RECURSIVE cloneExtraItems(_, _, _)
\* `for i, extra := range ci.Extra { extras[i] = extra.clone() }`
cloneExtraItems(items, h, arena) ==
    IF items = <<>> THEN [vals |-> <<>>, heap |-> h]
    ELSE LET x == ExtraItemClone(Head(items), h, arena)
             r == cloneExtraItems(Tail(items), x.heap, arena)
         IN [vals |-> <<x.val>> \o r.vals, heap |-> r.heap]

\* CatalogItem.clone
CatalogItemClone(ci, h, arena) ==
    LET extras == IF ci.Extra # NilAddr
                  THEN LET r == cloneExtraItems(h[ci.Extra], h, arena) IN Alloc(r.heap, r.vals, arena)
                  ELSE [addr |-> NilAddr, heap |-> h]
    IN [val |-> [Type |-> ci.Type, ID |-> ci.ID, Name |-> ci.Name, Extra |-> extras.addr],
        heap |-> extras.heap]

RECURSIVE cloneResourceItems(_, _, _)
\* `for i, resourceItem := range m.ResourceItems { resourceItems[i] = resourceItem.clone() }`
cloneResourceItems(items, h, arena) ==
    IF items = <<>> THEN [vals |-> <<>>, heap |-> h]
    ELSE LET x == ResourceItemClone(Head(items), h, arena)
             r == cloneResourceItems(Tail(items), x.heap, arena)
         IN [vals |-> <<x.val>> \o r.vals, heap |-> r.heap]

RECURSIVE cloneCatalogItems(_, _, _)
\* `for i, catalog := range m.Catalogs { catalogs[i] = catalog.clone() }`
cloneCatalogItems(items, h, arena) ==
    IF items = <<>> THEN [vals |-> <<>>, heap |-> h]
    ELSE LET x == CatalogItemClone(Head(items), h, arena)
             r == cloneCatalogItems(Tail(items), x.heap, arena)
         IN [vals |-> <<x.val>> \o r.vals, heap |-> r.heap]

\* `manifestClone := manifest`: the struct is copied, the arrays are shared.
cloneShallow(m, h, arena) == [val |-> m, heap |-> h]

\* Manifest.clone: the clone and the memory after its allocations.
clone(m, h, arena) ==
    LET resourceItems == IF m.ResourceItems # NilAddr
                         THEN LET r == cloneResourceItems(h[m.ResourceItems], h, arena)
                              IN Alloc(r.heap, r.vals, arena)
                         ELSE [addr |-> NilAddr, heap |-> h]
        types == cloneStrings(m.Types, resourceItems.heap, arena)
        catalogs == IF m.Catalogs # NilAddr
                    THEN LET r == cloneCatalogItems(h[m.Catalogs], types.heap, arena)
                         IN Alloc(r.heap, r.vals, arena)
                    ELSE [addr |-> NilAddr, heap |-> types.heap]
        idPrefixes == cloneStrings(m.IDprefixes, catalogs.heap, arena)
    IN [val |-> [ID |-> m.ID, Name |-> m.Name, Description |-> m.Description, Version |-> m.Version,
                 ResourceItems |-> resourceItems.addr,
                 Types |-> types.addr, Catalogs |-> catalogs.addr,
                 IDprefixes |-> idPrefixes.addr,
                 Background |-> m.Background, Logo |-> m.Logo, ContactEmail |-> m.ContactEmail,
                 BehaviorHints |-> m.BehaviorHints],
        heap |-> idPrefixes.heap]

----------------------------------------------------------------------------
(* Writes through a Manifest: what a callback or a test does with its *Manifest *)

\* The cells of the arrays reachable from m: `field` is "elem" for an element of
\* a []string and the name of a string field for an element of a slice of structs.
Cells(m, h) ==
    LET strs(a) == IF a = NilAddr THEN {}
                   ELSE {[addr |-> a, idx |-> i, field |-> "elem"] : i \in 1..Len(h[a])}
        recs(a, f) == IF a = NilAddr THEN {}
                      ELSE {[addr |-> a, idx |-> i, field |-> f] : i \in 1..Len(h[a])}
        ris == IF m.ResourceItems = NilAddr THEN {}
               ELSE UNION {strs(h[m.ResourceItems][i].Types) \cup strs(h[m.ResourceItems][i].IDprefixes) :
                                i \in 1..Len(h[m.ResourceItems])}
        exs == IF m.Catalogs = NilAddr THEN {}
               ELSE {h[m.Catalogs][i].Extra : i \in 1..Len(h[m.Catalogs])} \ {NilAddr}
        ops == UNION {UNION {strs(h[e][j].Options) : j \in 1..Len(h[e])} : e \in exs}
    IN recs(m.ResourceItems, "Name") \cup ris \cup strs(m.Types)
        \cup recs(m.Catalogs, "Type") \cup UNION {recs(e, "Name") : e \in exs} \cup ops
        \cup strs(m.IDprefixes)

\* Writes to the struct itself: a string field, the flag, a slice field set to nil.
FieldWrites == {"ID", "ConfigurationRequired=true", "ConfigurationRequired=false", "Types=nil"}

\* All writes possible through m.
Mutations(m, h) == {[kind |-> "cell", cell |-> c] : c \in Cells(m, h)}
    \cup {[kind |-> k, cell |-> <<>>] : k \in FieldWrites}

\* The struct and the memory after the write.
Mutate(m, h, mu) ==
    CASE mu.kind = "cell" ->
            [val |-> m,
             heap |-> [h EXCEPT ![mu.cell.addr][mu.cell.idx] =
                        IF mu.cell.field = "elem" THEN "changed"
                        ELSE [@ EXCEPT ![mu.cell.field] = "changed"]]]
      [] mu.kind = "ID" -> [val |-> [m EXCEPT !.ID = "changed"], heap |-> h]
      [] mu.kind = "ConfigurationRequired=true" ->
            [val |-> [m EXCEPT !.BehaviorHints.ConfigurationRequired = TRUE], heap |-> h]
      [] mu.kind = "ConfigurationRequired=false" ->
            [val |-> [m EXCEPT !.BehaviorHints.ConfigurationRequired = FALSE], heap |-> h]
      [] mu.kind = "Types=nil" -> [val |-> [m EXCEPT !.Types = NilAddr], heap |-> h]

----------------------------------------------------------------------------
(* Manifests the model starts from *)

NoHints == [Adult |-> FALSE, P2P |-> FALSE, Configurable |-> FALSE, ConfigurationRequired |-> FALSE]

\* Manifest{}
EmptyManifest ==
    [ID |-> "", Name |-> "", Description |-> "", Version |-> "",
     ResourceItems |-> NilSlice, Types |-> NilSlice, Catalogs |-> NilSlice, IDprefixes |-> NilSlice,
     Background |-> "", Logo |-> "", ContactEmail |-> "", BehaviorHints |-> NoHints]

\* The manifest of TestManifestClone with every field filled.
FullManifest(configurationRequired) ==
    [ID |-> "com.example.some-addon", Name |-> "Some addon", Description |-> "Some addon",
     Version |-> "0.1.0",
     ResourceItems |-> Slice(<<[Name |-> "catalog", Types |-> Slice(<<"movie">>),
                               IDprefixes |-> Slice(<<"tt">>)]>>),
     Types |-> Slice(<<"movie">>),
     Catalogs |-> Slice(<<[Type |-> "movie", ID |-> "some-catalog", Name |-> "Some catalog",
                          Extra |-> Slice(<<[Name |-> "Some extra", IsRequired |-> TRUE,
                                             Options |-> Slice(<<"foo">>), OptionsLimit |-> 123]>>)]>>),
     IDprefixes |-> Slice(<<"tt">>),
     Background |-> "https://example.com/background.jpg", Logo |-> "https://example.com/logo.png",
     ContactEmail |-> "mail@example.com",
     BehaviorHints |-> [Adult |-> TRUE, P2P |-> TRUE, Configurable |-> TRUE,
                        ConfigurationRequired |-> configurationRequired]]

\* A manifest with absent, empty and longer lists at every level.
MixedManifest ==
    [ID |-> "org.myexampleaddon", Name |-> "example", Description |-> "An example", Version |-> "1.0.0",
     ResourceItems |-> Slice(<<[Name |-> "stream", Types |-> NilSlice, IDprefixes |-> Slice(<<>>)],
                               [Name |-> "catalog", Types |-> Slice(<<"movie", "series">>),
                                IDprefixes |-> NilSlice]>>),
     Types |-> Slice(<<>>),
     Catalogs |-> Slice(<<[Type |-> "movie", ID |-> "a", Name |-> "A", Extra |-> NilSlice],
                          [Type |-> "series", ID |-> "b", Name |-> "B",
                           Extra |-> Slice(<<[Name |-> "genre", IsRequired |-> FALSE,
                                              Options |-> NilSlice, OptionsLimit |-> 0],
                                             [Name |-> "skip", IsRequired |-> FALSE,
                                              Options |-> Slice(<<"0", "100">>), OptionsLimit |-> 1]>>)]>>),
     IDprefixes |-> NilSlice,
     Background |-> "", Logo |-> "", ContactEmail |-> "", BehaviorHints |-> NoHints]

\* A manifest with the required fields only: its lists are absent or empty.
SparseManifest ==
    [ID |-> "org.myexampleaddon", Name |-> "example", Description |-> "An example", Version |-> "1.0.0",
     ResourceItems |-> Slice(<<[Name |-> "stream", Types |-> NilSlice, IDprefixes |-> Slice(<<>>)]>>),
     Types |-> NilSlice,
     Catalogs |-> Slice(<<>>),
     IDprefixes |-> NilSlice,
     Background |-> "", Logo |-> "", ContactEmail |-> "", BehaviorHints |-> NoHints]

----------------------------------------------------------------------------
(* json.Marshal of a Manifest: the body as a sequence of tokens *)

KeyTok(k) == <<"key", k>>
StrTok(v) == <<"str", v>>
BoolTok(b) == <<"bool", IF b THEN "true" ELSE "false">>
NumTok(n) == <<"num", ToString(n)>>
PunctTok(x) == <<"punct", x>>

RECURSIVE JoinParts(_)
JoinParts(parts) ==
    IF Len(parts) = 0 THEN <<>>
    ELSE IF Len(parts) = 1 THEN parts[1]
    ELSE parts[1] \o <<PunctTok(",")>> \o JoinParts(Tail(parts))

\* A struct field: the key and its value, or nothing when the tag says omitempty
\* and the value is the empty value of its type.
Field(k, value) == <<KeyTok(k)>> \o value
OmitEmpty(empty, k, value) == IF empty THEN <<>> ELSE Field(k, value)

NonEmptyPart(part) == part # <<>>
Object(fields) == <<PunctTok("{")>> \o JoinParts(SelectSeq(fields, NonEmptyPart)) \o <<PunctTok("}")>>

\* A slice: null when nil, else the array of its marshalled elements.
MarshalList(sl, MarshalElem(_)) ==
    IF sl.nil THEN <<PunctTok("null")>>
    ELSE <<PunctTok("[")>> \o JoinParts([i \in 1..Len(sl.elems) |-> MarshalElem(sl.elems[i])])
            \o <<PunctTok("]")>>

MarshalString(v) == <<StrTok(v)>>
MarshalStrings(sl) == MarshalList(sl, MarshalString)

MarshalResourceItem(ri) ==
    Object(<<Field("name", MarshalString(ri.Name)),
             Field("types", MarshalStrings(ri.Types)),
             OmitEmpty(Len(ri.IDprefixes.elems) = 0, "idPrefixes", MarshalStrings(ri.IDprefixes))>>)

MarshalExtraItem(ei) ==
    Object(<<Field("name", MarshalString(ei.Name)),
             OmitEmpty(~ei.IsRequired, "isRequired", <<BoolTok(ei.IsRequired)>>),
             OmitEmpty(Len(ei.Options.elems) = 0, "options", MarshalStrings(ei.Options)),
             OmitEmpty(ei.OptionsLimit = 0, "optionsLimit", <<NumTok(ei.OptionsLimit)>>)>>)

MarshalCatalogItem(ci) ==
    Object(<<Field("type", MarshalString(ci.Type)),
             Field("id", MarshalString(ci.ID)),
             Field("name", MarshalString(ci.Name)),
             OmitEmpty(Len(ci.Extra.elems) = 0, "extra", MarshalList(ci.Extra, MarshalExtraItem))>>)

MarshalBehaviorHints(bh) ==
    Object(<<OmitEmpty(~bh.Adult, "adult", <<BoolTok(bh.Adult)>>),
             OmitEmpty(~bh.P2P, "p2p", <<BoolTok(bh.P2P)>>),
             OmitEmpty(~bh.Configurable, "configurable", <<BoolTok(bh.Configurable)>>),
             OmitEmpty(~bh.ConfigurationRequired, "configurationRequired",
                       <<BoolTok(bh.ConfigurationRequired)>>)>>)

\* json.Marshal(manifest), v being the manifest with its slices read from memory.
\* behaviorHints is a struct: omitempty never omits it.
MarshalManifest(v) ==
    Object(<<Field("id", MarshalString(v.ID)),
             Field("name", MarshalString(v.Name)),
             Field("description", MarshalString(v.Description)),
             Field("version", MarshalString(v.Version)),
             OmitEmpty(Len(v.ResourceItems.elems) = 0, "resources",
                       MarshalList(v.ResourceItems, MarshalResourceItem)),
             Field("types", MarshalStrings(v.Types)),
             Field("catalogs", MarshalList(v.Catalogs, MarshalCatalogItem)),
             OmitEmpty(Len(v.IDprefixes.elems) = 0, "idPrefixes", MarshalStrings(v.IDprefixes)),
             OmitEmpty(v.Background = "", "background", MarshalString(v.Background)),
             OmitEmpty(v.Logo = "", "logo", MarshalString(v.Logo)),
             OmitEmpty(v.ContactEmail = "", "contactEmail", MarshalString(v.ContactEmail)),
             Field("behaviorHints", MarshalBehaviorHints(v.BehaviorHints))>>)

----------------------------------------------------------------------------
(* clone() on its own: a manifest is cloned, then both are written to *)

CloneLiterals == {EmptyManifest, FullManifest(TRUE), FullManifest(FALSE), MixedManifest}

DispatchIdle ==
    /\ phase = "idle" /\ opts = <<>> /\ userDataType = FALSE
    /\ catalogHandlers = NilMap /\ streamHandlers = NilMap
    /\ rangeLast = [catalog |-> "", stream |-> ""]
    /\ exch = NoExchange /\ validated = NoExchange

CloneInit ==
    /\ DispatchIdle /\ ManifestIdle /\ RestIdle
    /\ \E lit \in CloneLiterals : \E r \in {StoreManifest(lit, <<>>, Arena.main)} :
          manifest = r.val /\ heap = r.heap
    /\ copy = NoManifest
    /\ touched = [m |-> 0, c |-> 0]

\* m2 := m.clone()
CloneCall ==
    /\ copy = NoManifest
    /\ \E r \in {clone(manifest, heap, Arena.g1)} : copy' = r.val /\ heap' = r.heap
    /\ UNCHANGED <<manifest, touched, dispatchVars, manifestVars, restVars>>

\* A write through the clone.
MutateCopy ==
    /\ copy # NoManifest
    /\ touched.m + touched.c < MaxCloneMut
    /\ \E mu \in Mutations(copy, heap) : \E r \in {Mutate(copy, heap, mu)} :
          copy' = r.val /\ heap' = Collect(r.heap, {manifest, r.val})
    /\ touched' = [touched EXCEPT !.c = @ + 1]
    /\ UNCHANGED <<manifest, dispatchVars, manifestVars, restVars>>

\* A write through the original, after it was cloned.
MutateOriginal ==
    /\ copy # NoManifest
    /\ touched.m + touched.c < MaxCloneMut
    /\ \E mu \in Mutations(manifest, heap) : \E r \in {Mutate(manifest, heap, mu)} :
          manifest' = r.val /\ heap' = Collect(r.heap, {r.val, copy})
    /\ touched' = [touched EXCEPT !.m = @ + 1]
    /\ UNCHANGED <<copy, dispatchVars, manifestVars, restVars>>

CloneNext == CloneCall \/ MutateCopy \/ MutateOriginal

SpecClone == CloneInit /\ [][CloneNext]_vars

----------------------------------------------------------------------------
(* createManifestHandler: the manifest endpoint, one goroutine per request *)

ManifestLiterals == {FullManifest(TRUE), FullManifest(FALSE), SparseManifest}

\* What a ManifestCallback returns.
CallbackStatuses == {-1, 200, 400, 503}

\* The 200 response carrying a manifest body.
SendManifest(body) ==
    [status |-> StatusOK, body |-> body, headers |-> ("Content-Type" :> <<"application/json">>)]

\* Only the configured body is served.
PreSerializedConfiguredOnly(configured) == configuredManifestBody

\* Without a callback the handler serves one of the two bodies made at its creation.
PreSerialized(configured) == IF configured THEN configuredManifestBody ELSE manifestBody

\* The handler after the callback has returned: it answers with the status, or
\* with the clone as the callback left it.
ManifestResponseKeepFlag(m, h, configured, status) ==
    IF status >= 400 THEN SendStatus(status)
    ELSE SendManifest(MarshalManifest(DeepValue(m, h)))

ManifestResponseAbove400(m, h, configured, status) ==
    IF status > 400 THEN SendStatus(status)
    ELSE LET manifestClone == IF configured
                              THEN [m EXCEPT !.BehaviorHints.ConfigurationRequired = FALSE]
                              ELSE m
         IN SendManifest(MarshalManifest(DeepValue(manifestClone, h)))

ManifestResponse(m, h, configured, status) ==
    IF status >= 400 THEN SendStatus(status)
    ELSE LET manifestClone == IF configured
                              THEN [m EXCEPT !.BehaviorHints.ConfigurationRequired = FALSE]
                              ELSE m
         IN SendManifest(MarshalManifest(DeepValue(manifestClone, h)))

\* The manifest and the clones the callbacks of the goroutines other than g hold.
Roots(g) == {manifest} \cup {reqs[o].clone : o \in {o \in Goroutines \ {g} : reqs[o].pc = "callback"}}

ManifestInit ==
    /\ phase = "serving" /\ opts = <<>> /\ userDataType \in BOOLEAN
    /\ catalogHandlers = NilMap /\ streamHandlers = NilMap
    /\ rangeLast = [catalog |-> "", stream |-> ""]
    /\ exch = NoExchange /\ validated = NoExchange
    /\ copy = NoManifest /\ touched = [m |-> 0, c |-> 0]
    /\ RestIdle
    /\ manifestCallback \in BOOLEAN
    /\ \E lit \in ManifestLiterals : \E r \in {StoreManifest(lit, <<>>, Arena.main)} :
          /\ manifest = r.val /\ heap = r.heap
          /\ declared = DeepValue(r.val, r.heap)
          /\ manifestBody = MarshalManifest(DeepValue(r.val, r.heap))
          /\ configuredManifestBody = MarshalManifest(DeepValue(
                    [r.val EXCEPT !.BehaviorHints.ConfigurationRequired = FALSE], r.heap))
    /\ reqs = [g \in Goroutines |-> IdleRequest]

\* A manifest request arrives: the user data is decoded and, when a callback is
\* registered, the manifest is cloned for it; else the request is answered.
ManifestRequest(g) ==
    /\ reqs[g].pc \in {"idle", "done"}
    /\ \E token \in UserDataTokens :
        LET fresh == [IdleRequest EXCEPT !.configured = token # ""]
        IN IF token # "" /\ userDataType /\ decodeUserData(token).err
           THEN /\ reqs' = [reqs EXCEPT ![g] = [fresh EXCEPT !.pc = "done",
                                                !.resp = SendStatus(StatusBadRequest)]]
                /\ UNCHANGED heap
           ELSE IF manifestCallback
           THEN \E r \in {clone(manifest, heap, Arena[g])} :
                  /\ reqs' = [reqs EXCEPT ![g] = [fresh EXCEPT !.pc = "callback", !.called = TRUE,
                                    !.userData = UserDataArg(token), !.clone = r.val,
                                    !.given = DeepValue(r.val, r.heap)]]
                  /\ heap' = r.heap
           ELSE /\ reqs' = [reqs EXCEPT ![g] = [fresh EXCEPT !.pc = "done",
                                !.flag = manifest.BehaviorHints.ConfigurationRequired,
                                !.resp = SendManifest(PreSerialized(token # ""))]]
                /\ UNCHANGED heap
    /\ UNCHANGED <<manifest, manifestCallback, manifestBody, configuredManifestBody, declared>>
    /\ UNCHANGED <<dispatchVars, copy, touched, restVars>>

\* The callback of g writes through the *Manifest it was given.
CallbackWrite(g) ==
    /\ reqs[g].pc = "callback"
    /\ reqs["g1"].muts + reqs["g2"].muts < MaxCallbackMut
    /\ \E mu \in Mutations(reqs[g].clone, heap) : \E r \in {Mutate(reqs[g].clone, heap, mu)} :
          /\ reqs' = [reqs EXCEPT ![g].clone = r.val, ![g].muts = @ + 1]
          /\ heap' = Collect(r.heap, Roots(g) \cup {r.val})
    /\ UNCHANGED <<manifest, manifestCallback, manifestBody, configuredManifestBody, declared>>
    /\ UNCHANGED <<dispatchVars, copy, touched, restVars>>

\* The callback of g returns a status and the handler answers.
CallbackReturn(g) ==
    /\ reqs[g].pc = "callback"
    /\ \E status \in CallbackStatuses :
          reqs' = [reqs EXCEPT ![g].pc = "done", ![g].returned = status,
                        ![g].flag = reqs[g].clone.BehaviorHints.ConfigurationRequired,
                        ![g].clone = NoManifest,
                        ![g].resp = ManifestResponse(reqs[g].clone, heap, reqs[g].configured, status)]
    /\ heap' = Collect(heap, Roots(g))
    /\ UNCHANGED <<manifest, manifestCallback, manifestBody, configuredManifestBody, declared>>
    /\ UNCHANGED <<dispatchVars, copy, touched, restVars>>

ManifestNext == \E g \in Goroutines : ManifestRequest(g) \/ CallbackWrite(g) \/ CallbackReturn(g)

SpecManifest == ManifestInit /\ [][ManifestNext]_vars

----------------------------------------------------------------------------
(* decodeUserData: from the path segment to the registered type             *)
(*                                                                         *)
(* A string is a sequence of one-character strings, []byte a sequence of   *)
(* numbers below 256.                                                      *)

\* The printable ASCII characters, from the space (32) to the tilde (126); the
\* grave accent (96) is written by its name.
Printable ==
    <<" ", "!", "\"", "#", "$", "%", "&", "'", "(", ")", "*", "+", ",", "-", ".", "/", "0", "1",
      "2", "3", "4", "5", "6", "7", "8", "9", ":", ";", "<", "=", ">", "?", "@", "A", "B", "C",
      "D", "E", "F", "G", "H", "I", "J", "K", "L", "M", "N", "O", "P", "Q", "R", "S", "T", "U",
      "V", "W", "X", "Y", "Z", "[", "\\", "]", "^", "_", "grave", "a", "b", "c", "d", "e", "f", "g",
      "h", "i", "j", "k", "l", "m", "n", "o", "p", "q", "r", "s", "t", "u", "v", "w", "x", "y",
      "z", "{", "|", "}", "~">>

IndexOf(c, chars) == IF \E i \in 1..Len(chars) : chars[i] = c
                     THEN CHOOSE i \in 1..Len(chars) : chars[i] = c
                     ELSE 0

\* []byte(s) and string(b) for printable ASCII.
Ascii(c) == 31 + IndexOf(c, Printable)
Bytes(chars) == [i \in 1..Len(chars) |-> Ascii(chars[i])]

\* The alphabet of base64.URLEncoding.
B64Alphabet ==
    <<"A", "B", "C", "D", "E", "F", "G", "H", "I", "J", "K", "L", "M", "N", "O", "P", "Q", "R",
      "S", "T", "U", "V", "W", "X", "Y", "Z", "a", "b", "c", "d", "e", "f", "g", "h", "i", "j",
      "k", "l", "m", "n", "o", "p", "q", "r", "s", "t", "u", "v", "w", "x", "y", "z", "0", "1",
      "2", "3", "4", "5", "6", "7", "8", "9", "-", "_">>

\* The value of a character in the alphabet, -1 for a character outside it.
B64Index(c) == IndexOf(c, B64Alphabet) - 1

RECURSIVE EncodeToString(_)
\* base64.RawURLEncoding.EncodeToString(src): three bytes make four characters.
EncodeToString(src) ==
    LET ch(n) == B64Alphabet[n + 1]
    IN IF Len(src) = 0 THEN <<>>
       ELSE IF Len(src) = 1
       THEN <<ch(src[1] \div 4), ch((src[1] % 4) * 16)>>
       ELSE IF Len(src) = 2
       THEN <<ch(src[1] \div 4), ch(((src[1] % 4) * 16) + (src[2] \div 16)), ch((src[2] % 16) * 4)>>
       ELSE <<ch(src[1] \div 4), ch(((src[1] % 4) * 16) + (src[2] \div 16)),
              ch(((src[2] % 16) * 4) + (src[3] \div 64)), ch(src[3] % 64)>>
                \o EncodeToString(SubSeq(src, 4, Len(src)))

\* The '=' characters base64.URLEncoding appends to an encoding of this length.
StdPadding(enc) ==
    IF Len(enc) % 4 = 2 THEN <<"=", "=">> ELSE IF Len(enc) % 4 = 3 THEN <<"=">> ELSE <<>>

RECURSIVE DecodeQuanta(_)
\* The bytes of a sequence of 6-bit values; leftover bits are dropped.
DecodeQuanta(v) ==
    IF Len(v) < 2 THEN <<>>
    ELSE IF Len(v) = 2 THEN <<(v[1] * 4) + (v[2] \div 16)>>
    ELSE IF Len(v) = 3 THEN <<(v[1] * 4) + (v[2] \div 16), ((v[2] % 16) * 16) + (v[3] \div 4)>>
    ELSE <<(v[1] * 4) + (v[2] \div 16), ((v[2] % 16) * 16) + (v[3] \div 4), ((v[3] % 4) * 64) + v[4]>>
            \o DecodeQuanta(SubSeq(v, 5, Len(v)))

\* base64.URLEncoding.WithPadding(base64.NoPadding).DecodeString(s): a character
\* outside the alphabet, '=' included, or a lone last character is corrupt input.
DecodeString(s) ==
    IF (\E i \in 1..Len(s) : B64Index(s[i]) < 0) \/ Len(s) % 4 = 1
    THEN [err |-> TRUE, bytes |-> <<>>]
    ELSE [err |-> FALSE, bytes |-> DecodeQuanta([i \in 1..Len(s) |-> B64Index(s[i])])]

\* strings.TrimSuffix(s, "="): removes the suffix once.
TrimSuffix(s) == IF Len(s) > 0 /\ s[Len(s)] = "=" THEN SubSeq(s, 1, Len(s) - 1) ELSE s

UpperHex == <<"0", "1", "2", "3", "4", "5", "6", "7", "8", "9", "A", "B", "C", "D", "E", "F">>
\* unhex: the value of a hexadecimal digit, -1 for another character.
Unhex(c) == IF IndexOf(c, UpperHex) > 0 THEN IndexOf(c, UpperHex) - 1
            ELSE IF IndexOf(c, HexDigits) > 0 THEN IndexOf(c, HexDigits) - 1
            ELSE -1

RECURSIVE PathUnescape(_)
\* url.PathUnescape(s): %XX becomes the byte XX, a '%' not followed by two
\* hexadecimal digits is an error, every other character stands for itself.
PathUnescape(s) ==
    IF Len(s) = 0 THEN [err |-> FALSE, bytes |-> <<>>]
    ELSE IF s[1] = "%"
    THEN IF Len(s) < 3 \/ Unhex(s[2]) < 0 \/ Unhex(s[3]) < 0
         THEN [err |-> TRUE, bytes |-> <<>>]
         ELSE LET rest == PathUnescape(SubSeq(s, 4, Len(s)))
              IN [err |-> rest.err,
                  bytes |-> IF rest.err THEN <<>> ELSE <<(Unhex(s[2]) * 16) + Unhex(s[3])>> \o rest.bytes]
    ELSE LET rest == PathUnescape(Tail(s))
         IN [err |-> rest.err, bytes |-> IF rest.err THEN <<>> ELSE <<Ascii(s[1])>> \o rest.bytes]

RECURSIVE PathEscape(_)
\* url.PathEscape(string(b)) for b made of letters, digits and JSON punctuation:
\* letters and digits stand for themselves, the rest is written %XX.
PathEscape(b) ==
    IF Len(b) = 0 THEN <<>>
    ELSE (IF b[1] \in 48..57 \/ b[1] \in 65..90 \/ b[1] \in 97..122
          THEN <<Printable[b[1] - 31]>>
          ELSE <<"%", UpperHex[(b[1] \div 16) + 1], UpperHex[(b[1] % 16) + 1]>>)
            \o PathEscape(Tail(b))

\* The registered user data type: struct { A uint `json:"a"` }.
UserDataValues == {[A |-> 1], [A |-> 12], [A |-> 123]}
ZeroUserData == [A |-> 0]

\* json.Marshal(v) for a value of the registered type.
MarshalUserData(v) == Bytes(<<"{", "\"", "a", "\"", ":">> \o FormatBase(v.A, DecDigits) \o <<"}">>)

RECURSIVE ParseUint(_)
ParseUint(ds) ==
    IF Len(ds) = 0 THEN 0 ELSE (ParseUint(SubSeq(ds, 1, Len(ds) - 1)) * 10) + (IndexOf(ds[Len(ds)], DecDigits) - 1)

\* json.Unmarshal(b, &v) for the registered type, for texts without white space
\* and without other keys: {"a":N} sets the field, {} leaves the zero value,
\* everything else (no text at all, a cut-off object, a bare number) is an error.
UnmarshalUserData(b) ==
    LET text == [i \in 1..Len(b) |-> IF b[i] \in 32..126 THEN Printable[b[i] - 31] ELSE "invalid"]
        ds == SubSeq(text, 6, Len(text) - 1)
    IN IF text = <<"{", "}">> THEN [err |-> FALSE, val |-> ZeroUserData]
       ELSE IF /\ Len(text) >= 7
               /\ SubSeq(text, 1, 5) = <<"{", "\"", "a", "\"", ":">>
               /\ text[Len(text)] = "}"
               /\ \A i \in 1..Len(ds) : IndexOf(ds[i], DecDigits) > 0
               /\ (Len(ds) = 1 \/ ds[1] # "0")
            THEN [err |-> FALSE, val |-> [A |-> ParseUint(ds)]]
            ELSE [err |-> TRUE, val |-> ZeroUserData]

\* An interface{} value: nil, a string, or a pointer to a value of the registered type.
NilValue == [kind |-> "nil", str |-> <<>>, val |-> ZeroUserData]
StringValue(str) == [kind |-> "string", str |-> str, val |-> ZeroUserData]
PointerTo(v) == [kind |-> "ptr", str |-> <<>>, val |-> v]

\* decodeUserData that hands on the zero value when json.Unmarshal fails.
DecodeUserDataStringLenient(data, typed, userDataIsBase64) ==
    LET userDataDecoded == IF userDataIsBase64 THEN DecodeString(TrimSuffix(data))
                           ELSE PathUnescape(data)
    IN IF userDataDecoded.err THEN [outcome |-> "error", step |-> "decode", userData |-> NilValue]
       ELSE IF ~typed THEN [outcome |-> "panic", step |-> "new", userData |-> NilValue]
       ELSE [outcome |-> "ok", step |-> "done",
             userData |-> PointerTo(UnmarshalUserData(userDataDecoded.bytes).val)]

\* decodeUserData(data, t, logger, userDataIsBase64): what it returns, or that it
\* panics (reflect.New of a nil type).
DecodeUserDataString(data, typed, userDataIsBase64) ==
    LET userDataDecoded == IF userDataIsBase64 THEN DecodeString(TrimSuffix(data))
                           ELSE PathUnescape(data)
        parsed == UnmarshalUserData(userDataDecoded.bytes)
    IN IF userDataDecoded.err THEN [outcome |-> "error", step |-> "decode", userData |-> NilValue]
       ELSE IF ~typed THEN [outcome |-> "panic", step |-> "new", userData |-> NilValue]
       ELSE IF parsed.err THEN [outcome |-> "error", step |-> "unmarshal", userData |-> NilValue]
       ELSE [outcome |-> "ok", step |-> "done", userData |-> PointerTo(parsed.val)]

----------------------------------------------------------------------------
(* The user data segment at the three endpoints and in Addon.DecodeUserData *)

\* The text of a string literal.
ValidID == <<"t", "t", "1">>
BrokenEscape == <<"%", "z", "z">>
\* JSON texts that are not a value of the registered type, and the empty object.
CutOffJSON == Bytes(<<"{", "\"", "a">>)
EmptyObject == Bytes(<<"{", "}">>)

\* Segments that are not an encoding at all.
UndecodableSegments(userDataIsBase64) ==
    IF userDataIsBase64 THEN {<<"e", "y", "J", "!">>, <<"e">>} ELSE {BrokenEscape, <<"%", "7">>}
\* Segments that encode a text that is not JSON for the registered type.
NotJSONSegments(userDataIsBase64) ==
    IF userDataIsBase64 THEN {EncodeToString(CutOffJSON)} ELSE {<<"1", "2">>, PathEscape(CutOffJSON)}

\* The user data segments requests carry: nothing, encodings of values of the
\* registered type (Base64 without padding and with its padding) and of the empty
\* object, and the segments above.
UserDataSegments(userDataIsBase64) ==
    {<<>>} \cup UndecodableSegments(userDataIsBase64) \cup NotJSONSegments(userDataIsBase64)
        \cup (IF userDataIsBase64
              THEN {EncodeToString(EmptyObject)}
                    \cup {EncodeToString(MarshalUserData(v)) : v \in UserDataValues}
                    \cup {EncodeToString(MarshalUserData(v)) \o StdPadding(EncodeToString(MarshalUserData(v))) :
                            v \in UserDataValues}
              ELSE {PathEscape(EmptyObject)} \cup {PathEscape(MarshalUserData(v)) : v \in UserDataValues})

\* Where a user data segment is looked at.
Sites == {"manifest", "catalog", "stream", "DecodeUserData"}
\* The types the catalog and stream handlers are registered for, and those requested.
HandledTypes == {"movie"}
RequestedTypes == {"movie", "tv"}

\* The common outcome record: the response status (0: none was sent here), whether
\* the callback or handler was invoked and with what user data, and for
\* Addon.DecodeUserData what it returned.
Outcome(status, invoked, userData, returned) ==
    [status |-> status, invoked |-> invoked, userData |-> userData, returned |-> returned]
NotReturned == [outcome |-> "none", step |-> "none", userData |-> NilValue]

\* createManifestHandler up to the call of the callback (a callback is registered).
ManifestUserData(userDataString, typed, userDataIsBase64) ==
    IF userDataString = <<>>
    THEN Outcome(0, TRUE, IF ~typed THEN StringValue(<<>>) ELSE NilValue, NotReturned)
    ELSE IF ~typed THEN Outcome(0, TRUE, StringValue(userDataString), NotReturned)
    ELSE LET d == DecodeUserDataString(userDataString, typed, userDataIsBase64)
         IN IF d.outcome # "ok" THEN Outcome(StatusBadRequest, FALSE, NilValue, NotReturned)
            ELSE Outcome(0, TRUE, d.userData, NotReturned)

\* The user data is decoded before the type is looked up.
HandlerUserDataDecodeFirst(requestedType, requestedID, userDataString, typed, userDataIsBase64) ==
    IF PathUnescape(requestedID).err THEN Outcome(StatusBadRequest, FALSE, NilValue, NotReturned)
    ELSE IF typed /\ userDataString # <<>>
            /\ DecodeUserDataString(userDataString, typed, userDataIsBase64).outcome # "ok"
    THEN Outcome(StatusBadRequest, FALSE, NilValue, NotReturned)
    ELSE IF requestedType \notin HandledTypes THEN Outcome(StatusNotFound, FALSE, NilValue, NotReturned)
    ELSE IF ~typed THEN Outcome(0, TRUE, StringValue(userDataString), NotReturned)
    ELSE IF userDataString = <<>> THEN Outcome(0, TRUE, NilValue, NotReturned)
    ELSE Outcome(0, TRUE, DecodeUserDataString(userDataString, typed, userDataIsBase64).userData,
                 NotReturned)

\* createHandler up to the call of the handler.
HandlerUserData(requestedType, requestedID, userDataString, typed, userDataIsBase64) ==
    IF PathUnescape(requestedID).err THEN Outcome(StatusBadRequest, FALSE, NilValue, NotReturned)
    ELSE IF requestedType \notin HandledTypes THEN Outcome(StatusNotFound, FALSE, NilValue, NotReturned)
    ELSE IF ~typed THEN Outcome(0, TRUE, StringValue(userDataString), NotReturned)
    ELSE IF userDataString = <<>> THEN Outcome(0, TRUE, NilValue, NotReturned)
    ELSE LET d == DecodeUserDataString(userDataString, typed, userDataIsBase64)
         IN IF d.outcome # "ok" THEN Outcome(StatusBadRequest, FALSE, NilValue, NotReturned)
            ELSE Outcome(0, TRUE, d.userData, NotReturned)

\* Addon.DecodeUserData(param, c) in a custom endpoint.
PublicDecodeUserData(data, typed, userDataIsBase64) ==
    Outcome(0, FALSE, NilValue, DecodeUserDataString(data, typed, userDataIsBase64))

UserDataInit ==
    /\ phase = "serving"
    /\ opts \in [UserDataIsBase64 : BOOLEAN]
    /\ userDataType \in BOOLEAN
    /\ catalogHandlers = NilMap /\ streamHandlers = NilMap
    /\ rangeLast = [catalog |-> "", stream |-> ""]
    /\ exch = NoExchange /\ validated = NoExchange
    /\ CloneIdle /\ ManifestIdle
    /\ RestIdle

\* The part of a request that does not depend on the site.
UserDataRequest(site, requestedType, requestedID, segment, result) ==
    /\ udx' = [site |-> site, type |-> requestedType, id |-> requestedID, segment |-> segment,
               status |-> result.status, invoked |-> result.invoked, userData |-> result.userData,
               returned |-> result.returned]
    /\ UNCHANGED <<dispatchVars, cloneVars, manifestVars, rx, lg, cm>>

\* A request to /manifest.json or /{userData}/manifest.json.
ManifestSite ==
    \E segment \in UserDataSegments(opts.UserDataIsBase64) :
        UserDataRequest("manifest", "", <<>>, segment,
                        ManifestUserData(segment, userDataType, opts.UserDataIsBase64))

\* A request to a catalog or a stream route.
HandlerSite ==
    \E site \in {"catalog", "stream"}, requestedType \in RequestedTypes,
       requestedID \in {ValidID, BrokenEscape}, segment \in UserDataSegments(opts.UserDataIsBase64) :
        UserDataRequest(site, requestedType, requestedID, segment,
                        HandlerUserData(requestedType, requestedID, segment, userDataType,
                                        opts.UserDataIsBase64))

\* A request to a custom endpoint that calls Addon.DecodeUserData.
CustomEndpointSite ==
    \E segment \in UserDataSegments(opts.UserDataIsBase64) :
        UserDataRequest("DecodeUserData", "", <<>>, segment,
                        PublicDecodeUserData(segment, userDataType, opts.UserDataIsBase64))

UserDataNext == ManifestSite \/ HandlerSite \/ CustomEndpointSite

SpecUserData == UserDataInit /\ [][UserDataNext]_vars

----------------------------------------------------------------------------
(* addRouteMatcherMiddleware: the checks in front of the catalog and stream routes *)

\* Options.StreamIDregex: the default (empty) and the IMDb example of its documentation.
IMDbRegex == "^tt\\d{7,8}$"
StreamIDregexes == {"", IMDbRegex}

\* regexp.MustCompile(streamIDregexString).MatchString(id): the empty pattern
\* matches every string, the IMDb pattern "tt" followed by 7 or 8 digits and nothing else.
MatchString(streamIDregexString, id) ==
    IF streamIDregexString = "" THEN TRUE
    ELSE /\ Len(id) \in 9..10
         /\ id[1] = "t" /\ id[2] = "t"
         /\ \A i \in 3..Len(id) : IndexOf(id[i], DecDigits) > 0

\* The values of the "id" path parameter: IMDb IDs of 7 and 8 digits, IDs with
\* too few and too many digits, with a leading character, with an escaped digit,
\* other text, a broken escape and nothing.
IMDbID == <<"t", "t", "1", "2", "5", "4", "2", "0", "7">>
EscapedIMDbID == <<"t", "t", "1", "2", "5", "4", "2", "0", "%", "3", "7">>
PathIDs ==
    {IMDbID, IMDbID \o <<"1">>, SubSeq(IMDbID, 1, 8), IMDbID \o <<"1", "2">>, <<"x">> \o IMDbID,
     EscapedIMDbID, <<"g", "a", "r", "b", "a", "g", "e">>, BrokenEscape, <<>>}
\* The values of the "type" path parameter.
PathTypes == {"movie", "tv", ""}

\* What a middleware of the matcher did with the request: the status it sent
\* (0: none), whether it called c.Next(), and the c.Locals it set.
Rejected == [status |-> StatusBadRequest, next |-> FALSE, locals |-> {}]
Accepted(locals) == [status |-> 0, next |-> TRUE, locals |-> locals]

\* The middleware of "/catalog/:type/:id.json" and "/:userData/catalog/:type/:id.json"
\* that checks the parameters.
CatalogMatcher(type, id) ==
    IF type = "" \/ id = <<>> THEN Rejected ELSE Accepted({"isConfigured"})

\* The middleware of the stream routes that checks the parameters and the ID.
StreamMatcher(streamIDregexString, type, id, locals) ==
    IF type = "" \/ id = <<>> THEN Rejected
    ELSE IF ~MatchString(streamIDregexString, id) THEN Rejected
    ELSE Accepted(locals)

\* The user data route of streams lets every ID pass.
addRouteMatcherMiddlewareNoRegex(requiresUserData, streamIDregexString, kind, hasUserData, type, id) ==
    IF requiresUserData /\ ~hasUserData THEN Rejected
    ELSE IF kind = "catalog" THEN CatalogMatcher(type, id)
    ELSE IF hasUserData THEN StreamMatcher("", type, id, {"isConfigured", "isStream"})
    ELSE StreamMatcher(streamIDregexString, type, id, {"isStream"})

\* The routes without user data are checked as if no user data was required.
addRouteMatcherMiddlewareOptional(requiresUserData, streamIDregexString, kind, hasUserData, type, id) ==
    IF kind = "catalog" THEN CatalogMatcher(type, id)
    ELSE IF hasUserData THEN StreamMatcher(streamIDregexString, type, id, {"isConfigured", "isStream"})
    ELSE StreamMatcher(streamIDregexString, type, id, {"isStream"})

\* The middleware the request's route runs, by the route's kind (catalog or
\* stream) and whether it has the user data segment.
addRouteMatcherMiddleware(requiresUserData, streamIDregexString, kind, hasUserData, type, id) ==
    IF requiresUserData
    THEN IF ~hasUserData THEN Rejected
         ELSE IF kind = "catalog" THEN CatalogMatcher(type, id)
         ELSE StreamMatcher(streamIDregexString, type, id, {"isConfigured", "isStream"})
    ELSE IF kind = "catalog" THEN CatalogMatcher(type, id)
         ELSE IF hasUserData
         THEN StreamMatcher(streamIDregexString, type, id, {"isConfigured", "isStream"})
         ELSE StreamMatcher(streamIDregexString, type, id, {"isStream"})

\* The arguments the matcher is installed with: user data is required when the
\* manifest declares the configuration required, the pattern is the option's.
requiresUserData == declared.BehaviorHints.ConfigurationRequired
streamIDregexString == opts.StreamIDregex

\* The user data segments of the requests: a value of the registered type and a broken escape.
RouteSegments == {PathEscape(MarshalUserData([A |-> 1])), BrokenEscape}

RouteInit ==
    /\ phase = "serving"
    /\ opts \in [StreamIDregex : StreamIDregexes, UserDataIsBase64 : {FALSE}]
    /\ userDataType \in BOOLEAN
    /\ catalogHandlers = NilMap /\ streamHandlers = NilMap
    /\ rangeLast = [catalog |-> "", stream |-> ""]
    /\ exch = NoExchange /\ validated = NoExchange
    /\ CloneIdle
    /\ manifestCallback = FALSE /\ manifestBody = <<>> /\ configuredManifestBody = <<>>
    /\ declared \in ManifestLiterals
    /\ reqs = [g \in Goroutines |-> IdleRequest]
    /\ RestIdle

\* A request on a route of the given kind: the matcher's middleware runs and,
\* when it calls c.Next(), the handler of the route.
RouteRequest(kind, hasUserData, type, id, segment) ==
    /\ phase = "serving"
    /\ \E m \in {addRouteMatcherMiddleware(requiresUserData, streamIDregexString, kind,
                                           hasUserData, type, id)} :
       \E h \in {IF m.next
                 THEN HandlerUserData(type, id, segment, userDataType, opts.UserDataIsBase64)
                 ELSE Outcome(m.status, FALSE, NilValue, NotReturned)} :
          rx' = [kind |-> kind, hasUserData |-> hasUserData, type |-> type, id |-> id,
                 segment |-> segment, next |-> m.next, locals |-> m.locals,
                 status |-> h.status, invoked |-> h.invoked]
    /\ UNCHANGED <<dispatchVars, cloneVars, manifestVars, udx, lg, cm>>

\* GET /catalog/{type}/{id}.json and GET /stream/{type}/{id}.json
PlainRoute ==
    \E kind \in {"catalog", "stream"}, type \in PathTypes, id \in PathIDs :
        RouteRequest(kind, FALSE, type, id, <<>>)

\* GET /{userData}/catalog/{type}/{id}.json and GET /{userData}/stream/{type}/{id}.json
UserDataRoute ==
    \E kind \in {"catalog", "stream"}, type \in PathTypes, id \in PathIDs, segment \in RouteSegments :
        RouteRequest(kind, TRUE, type, id, segment)

RouteNext == PlainRoute \/ UserDataRoute

SpecRoute == RouteInit /\ [][RouteNext]_vars

----------------------------------------------------------------------------
(* createLoggingMiddleware and createMetaMiddleware: one request from its      *)
(* arrival to its "Handled request" line, with the goroutine that looks the   *)
(* media name up                                                               *)

\* cinemeta.Meta: the zero value and what the client returns for a movie and a TV show.
ZeroMeta == [Name |-> "", ReleaseInfo |-> ""]
MovieMeta == [Name |-> "Big Buck Bunny", ReleaseInfo |-> "2008"]
TVShowMeta == [Name |-> "Some show", ReleaseInfo |-> "2010-2015"]

\* fmt.Sprintf("%v (%v)", meta.Name, meta.ReleaseInfo), as the parts of the text.
MediaNameOf(meta) == <<meta.Name, " (", meta.ReleaseInfo, ")">>

RECURSIVE Split(_, _)
\* strings.Split(s, sep) for a separator of one character.
Split(s, sep) ==
    IF \A i \in 1..Len(s) : s[i] # sep THEN <<s>>
    ELSE LET i == CHOOSE i \in 1..Len(s) : s[i] = sep /\ \A j \in 1..(i - 1) : s[j] # sep
         IN <<SubSeq(s, 1, i - 1)>> \o Split(SubSeq(s, i + 1, Len(s)), sep)

\* strconv.Atoi(s) returns no error: an optional sign followed by digits.
AtoiOk(s) ==
    LET digits == IF Len(s) > 0 /\ s[1] \in {"+", "-"} THEN Tail(s) ELSE s
    IN Len(digits) > 0 /\ \A i \in 1..Len(digits) : IndexOf(digits[i], DecDigits) > 0

\* The lookup both middlewares make from the "type" and "id" parameters:
\* whether it came to its end, and the meta it then holds. clientErr tells
\* whether the Cinemeta client returns an error.
NoTitle(step) == [found |-> FALSE, step |-> step, meta |-> ZeroMeta]
Title(meta) == [found |-> TRUE, step |-> "done", meta |-> meta]
LookupNoParamCheck(t, id, clientErr) ==
    IF t = "movie" THEN (IF clientErr THEN NoTitle("client") ELSE Title(MovieMeta))
    ELSE IF t = "series"
    THEN LET splitID == Split(id, ":")
         IN IF Len(splitID) # 3 THEN NoTitle("split")
            ELSE IF ~AtoiOk(splitID[2]) THEN NoTitle("season")
            ELSE IF ~AtoiOk(splitID[3]) THEN NoTitle("episode")
            ELSE IF clientErr THEN NoTitle("client")
            ELSE Title(TVShowMeta)
    ELSE Title(ZeroMeta)
Lookup(t, id, clientErr) ==
    IF t = "" \/ id = <<>> THEN NoTitle("params") ELSE LookupNoParamCheck(t, id, clientErr)

\* The paths of the requests: the user data segment (if any), the endpoint,
\* and for catalog and stream requests the type and the ID.
NoSegment == <<"none">>
LogSegments == {NoSegment, EncodeToString(MarshalUserData([A |-> 1])),
                PathEscape(MarshalUserData([A |-> 1]))}
LogIDs == {<<"t", "t", "1">>, <<"t", "t", "1", ":", "1", ":", "2">>, <<"t", "t", "1", ":", "1">>,
           <<"t", "t", "1", ":", "x", ":", "2">>, <<"t", "t", "1", ":", "1", ":", "y">>}
LogPaths ==
    {[userData |-> NoSegment, endpoint |-> "manifest", type |-> "", id |-> <<>>],
     [userData |-> NoSegment, endpoint |-> "catalog", type |-> "movie", id |-> <<"t", "t", "1">>]}
    \cup {[userData |-> u, endpoint |-> "stream", type |-> t, id |-> <<"t", "t", "1">>] :
            u \in LogSegments, t \in {"movie", "tv"}}
    \cup {[userData |-> u, endpoint |-> "stream", type |-> "series", id |-> id] :
            u \in LogSegments, id \in LogIDs}

\* "[A-Za-z0-9-_]+={0,2}" matches the whole segment.
Base64URLSegment(u) ==
    \E pad \in 0..2 :
        /\ Len(u) > pad
        /\ \A i \in 1..Len(u) : IF i > Len(u) - pad THEN u[i] = "="
                                ELSE IndexOf(u[i], B64Alphabet) > 0
\* streamURLregex.MatchString(c.Path())
StreamURL(path) ==
    /\ path.endpoint = "stream"
    /\ path.type \in {"movie", "series"}
    /\ Len(path.id) > 0
    /\ path.userData = NoSegment \/ Base64URLSegment(path.userData)

\* The statuses the rest of the chain leaves in the response.
ChainStatuses == {StatusOK, StatusBadRequest, StatusNotFound, StatusInternalServerError}

\* wg.Wait() returns at once, whatever the counter.
WaitReturnsAlways(wg) == TRUE
\* wg.Wait() returns when the counter is zero.
WaitReturns(wg) == wg = 0

LogInit ==
    /\ phase = "serving"
    /\ opts \in {o \in [DisableRequestLogging : BOOLEAN, LogMediaName : BOOLEAN,
                        PutMetaInContext : BOOLEAN] :
                    ~(o.DisableRequestLogging /\ o.LogMediaName)}
    /\ userDataType = FALSE
    /\ catalogHandlers = NilMap /\ streamHandlers = NilMap
    /\ rangeLast = [catalog |-> "", stream |-> ""]
    /\ exch = NoExchange /\ validated = NoExchange
    /\ CloneIdle /\ ManifestIdle /\ RestIdle

\* A request arrives. With request logging enabled the logging middleware is
\* the first to see it: it tells whether this is a stream request and starts
\* the goroutine of the lookup, then calls c.Next().
LogArrive ==
    /\ lg.pc \in {"idle", "logged", "answered"}
    /\ \E path \in LogPaths :
       \E isStream \in {~opts.DisableRequestLogging /\ opts.LogMediaName /\ StreamURL(path)} :
       \E started \in {opts.LogMediaName /\ ~opts.PutMetaInContext /\ isStream} :
          lg' = [IdleLogging EXCEPT !.pc = "next", !.path = path, !.isStream = isStream,
                                    !.wg = IF started THEN 1 ELSE 0,
                                    !.g = IF started THEN "running" ELSE "none"]
    /\ UNCHANGED <<dispatchVars, cloneVars, manifestVars, udx, rx, cm>>

\* The goroutine reads the parameters and makes the lookup: it returns on a
\* failure and stores the media name otherwise. c.Params gives the parameters
\* of the route the context is at, which has them or not.
LookupRun ==
    /\ lg.g = "running"
    /\ \E params \in {[type |-> lg.path.type, id |-> lg.path.id], [type |-> "", id |-> <<>>]},
          clientErr \in BOOLEAN :
       \E r \in {Lookup(params.type, params.id, clientErr)} :
          lg' = [lg EXCEPT !.g = IF r.found THEN "found" ELSE "returned",
                           !.lookup = r,
                           !.mediaName = IF r.found THEN MediaNameOf(r.meta) ELSE @]
    /\ UNCHANGED <<dispatchVars, cloneVars, manifestVars, udx, rx, cm>>

\* The goroutine calls wg.Done() and ends.
LookupDone ==
    /\ lg.g = "found"
    /\ lg' = [lg EXCEPT !.g = "done", !.wg = @ - 1]
    /\ UNCHANGED <<dispatchVars, cloneVars, manifestVars, udx, rx, cm>>

\* c.Next(): the rest of the chain runs. On the stream routes the meta
\* middleware (installed with PutMetaInContext) makes the lookup and puts the
\* meta into c.Locals; the handler leaves a status in the response.
ChainNext ==
    /\ lg.pc = "next"
    /\ \E status \in ChainStatuses, clientErr \in BOOLEAN :
       \E r \in {IF opts.PutMetaInContext /\ lg.path.endpoint = "stream"
                 THEN Lookup(lg.path.type, lg.path.id, clientErr)
                 ELSE NoTitle("none")} :
          lg' = [lg EXCEPT !.pc = IF opts.DisableRequestLogging THEN "answered" ELSE "wait",
                           !.status = status,
                           !.locals = IF r.found THEN <<r.meta>> ELSE <<>>]
    /\ UNCHANGED <<dispatchVars, cloneVars, manifestVars, udx, rx, cm>>

\* After c.Next() the logging middleware waits for the goroutine, takes the
\* media name (from c.Locals when the meta middleware provides it) and logs
\* "Handled request" with the status of the response.
WaitAndLog ==
    /\ lg.pc = "wait"
    /\ WaitReturns(lg.wg)
    /\ \E mediaName \in {IF opts.LogMediaName /\ opts.PutMetaInContext /\ lg.isStream
                              /\ lg.locals # <<>>
                         THEN MediaNameOf(lg.locals[1]) ELSE lg.mediaName} :
          lg' = [lg EXCEPT !.pc = "logged",
                           !.lines = Append(@, [msg |-> "Handled request", status |-> lg.status,
                                                hasMediaName |-> opts.LogMediaName,
                                                mediaName |-> IF ~opts.LogMediaName THEN <<>>
                                                              ELSE IF mediaName = <<>> THEN <<"?">>
                                                              ELSE mediaName])]
    /\ UNCHANGED <<dispatchVars, cloneVars, manifestVars, udx, rx, cm>>

LogNext == LogArrive \/ LookupRun \/ LookupDone \/ ChainNext \/ WaitAndLog

SpecLog == LogInit /\ [][LogNext]_vars

\* The Go scheduler runs every goroutine that is not blocked: the request's
\* goroutine goes on through the chain and the lookup goroutine runs to its end.
SpecLogFair ==
    SpecLog /\ WF_vars(ChainNext) /\ WF_vars(WaitAndLog) /\ WF_vars(LookupRun) /\ WF_vars(LookupDone)

----------------------------------------------------------------------------
(* NewAddon's Cinemeta client and cinemeta.Client.getMeta with its cache *)
(*                                                                         *)
(* Time is counted in units of 15 days.                                    *)

\* The clock stops here.
MaxTime == 4
\* DefaultClientOpts.TTL: 30 days.
DefaultTTL == 2
\* The zero value of ClientOptions.TTL.
ZeroTTL == 0
\* Options.CinemetaTimeout: unset, and two seconds (in milliseconds).
CinemetaTimeouts == {0, 2000}
\* Options.CinemetaClient: nil, or the client the caller made with DefaultClientOpts.
CinemetaClients == {"nil", "callers"}
\* The IMDb IDs looked up.
LookupIDs == {"tt1", "tt2"}

\* The checks of NewAddon on the logging and Cinemeta options.
CinemetaOptionsError(o) ==
    \/ o.DisableRequestLogging /\ o.LogMediaName
    \/ o.CinemetaClient # "nil" /\ ~o.LogMediaName /\ ~o.PutMetaInContext
    \/ o.CinemetaClient # "nil" /\ o.CinemetaTimeout # 0

\* The time to live of the client NewAddon makes: ClientOptions{Timeout: ...}
\* sets no TTL and NewClient keeps a TTL of 0.
OwnTTL == ZeroTTL

\* Addon.cinemetaClient: NewAddon tests its local variable cinemetaClient,
\* which is nil, and so replaces opts.CinemetaClient whenever the media name
\* is logged or the meta is put in the context.
AddonClient(o) ==
    IF o.LogMediaName \/ o.PutMetaInContext THEN "own" ELSE o.CinemetaClient

\* time.Since(created) > c.ttl
Expired(created, now, ttl) == now - created > ttl

CinemetaInit ==
    /\ phase = "new"
    /\ opts \in [DisableRequestLogging : BOOLEAN, LogMediaName : BOOLEAN, PutMetaInContext : BOOLEAN,
                 CinemetaClient : CinemetaClients, CinemetaTimeout : CinemetaTimeouts]
    /\ userDataType = FALSE
    /\ catalogHandlers = NilMap /\ streamHandlers = NilMap
    /\ rangeLast = [catalog |-> "", stream |-> ""]
    /\ exch = NoExchange /\ validated = NoExchange
    /\ CloneIdle /\ ManifestIdle
    /\ udx = NoUserDataExchange /\ rx = NoRouteExchange /\ lg = IdleLogging
    /\ cm = [NoCinemeta EXCEPT !.pc = "new"]

\* NewAddon returns an error for the options.
NewAddonRejects ==
    /\ cm.pc = "new"
    /\ CinemetaOptionsError(opts)
    /\ phase' = "rejected"
    /\ cm' = [cm EXCEPT !.pc = "rejected"]
    /\ UNCHANGED <<opts, userDataType, catalogHandlers, streamHandlers, rangeLast, exch, validated>>
    /\ UNCHANGED <<cloneVars, manifestVars, udx, rx, lg>>

\* NewAddon returns the addon, with the Cinemeta client it will use.
NewAddonReturns ==
    /\ cm.pc = "new"
    /\ ~CinemetaOptionsError(opts)
    /\ phase' = "serving"
    /\ \E client \in {AddonClient(opts)} :
          cm' = [cm EXCEPT !.pc = "built", !.client = client,
                           !.ttl = IF client = "own" THEN OwnTTL ELSE DefaultTTL]
    /\ UNCHANGED <<opts, userDataType, catalogHandlers, streamHandlers, rangeLast, exch, validated>>
    /\ UNCHANGED <<cloneVars, manifestVars, udx, rx, lg>>

\* Client.getMeta for an ID: the entry of the cache is returned when it is
\* found and not expired; else Cinemeta is asked, and its answer is stored
\* with the current time when it holds a name.
GetMeta ==
    /\ cm.pc = "built" /\ cm.client # "nil"
    /\ \E id \in LookupIDs, remoteOk \in BOOLEAN :
       \E found \in {id \in DOMAIN cm.cache} :
       \E hit \in {found /\ ~Expired(IF found THEN cm.cache[id] ELSE 0, cm.now, cm.ttl)} :
          cm' = [cm EXCEPT
                   !.cache = IF ~hit /\ remoteOk
                             THEN [k \in DOMAIN cm.cache \cup {id} |-> IF k = id THEN cm.now
                                                                       ELSE cm.cache[k]]
                             ELSE @,
                   !.last = [id |-> id, at |-> cm.now, cached |-> found,
                             created |-> IF found THEN cm.cache[id] ELSE 0,
                             remote |-> ~hit, found |-> hit \/ remoteOk]]
    /\ UNCHANGED <<dispatchVars, cloneVars, manifestVars, udx, rx, lg>>

\* Time passes.
Tick ==
    /\ cm.pc = "built"
    /\ cm.now < MaxTime
    /\ cm' = [cm EXCEPT !.now = @ + 1]
    /\ UNCHANGED <<dispatchVars, cloneVars, manifestVars, udx, rx, lg>>

CinemetaNext == NewAddonRejects \/ NewAddonReturns \/ GetMeta \/ Tick

SpecCinemeta == CinemetaInit /\ [][CinemetaNext]_vars

----------------------------------------------------------------------------
(* Claims about the catalog/stream dispatch handler *)

\* The last exchange went through the call of a registered handler.
Called == exch.family # "none" /\ exch.calls # <<>>
\* The handler returned a result and no error.
ReturnedResult == Called /\ exch.returned.err = "nil"
\* ETag handling is enabled for the family of the last exchange.
EtagEnabled ==
    IF exch.family = "catalog" THEN opts.HandleEtagCatalogs ELSE opts.HandleEtagStreams
\* The JSON key of the family of the last exchange.
ArrayKey == IF exch.family = "catalog" THEN "metas" ELSE "streams"
\* The body {"<key>":<result as JSON>} expected for the last exchange.
ExpectedBody == <<"{\"", ArrayKey, "\"", ":">> \o MarshalResult(exch.returned.res) \o <<"}">>
HasHeader(h, name) == name \in DOMAIN h

\* C1: a request for type t that reaches the invocation step invokes exactly the
\* handler registered under t, once, and no handler registered under another type.
C1_InvokesRegisteredHandler ==
    Called => exch.calls = <<Registered(exch.family).m[exch.type]>>

\* C2 as stated: NotFound gives 404, BadRequest 400, any other error 500, and a
\* result gives 200 with the result wrapped under "metas" / "streams".
C2_ResultAlways200 ==
    Called =>
        /\ exch.returned.err = "NotFound" => exch.resp.status = 404
        /\ exch.returned.err = "BadRequest" => exch.resp.status = 400
        /\ exch.returned.err = "other" => exch.resp.status = 500
        /\ exch.returned.err = "nil" => exch.resp.status = 200 /\ exch.resp.body = ExpectedBody

\* C2 amended: as above, but a result gives 304 when ETag handling is enabled and
\* If-None-Match is "*" or the ETag of the result, and 200 with the wrapped result otherwise.
C2_StatusMapping ==
    Called =>
        /\ exch.returned.err = "NotFound" => exch.resp.status = 404
        /\ exch.returned.err = "BadRequest" => exch.resp.status = 400
        /\ exch.returned.err = "other" => exch.resp.status = 500
        /\ exch.returned.err = "nil" =>
            IF EtagEnabled /\ (exch.inm = <<"*">> \/ exch.inm = ETagOf(MarshalResult(exch.returned.res)))
            THEN exch.resp.status = 304
            ELSE exch.resp.status = 200 /\ exch.resp.body = ExpectedBody

\* A stream handler returned a non-empty list and the response is 200 with {"streams":[...]}.
C2_Witness ==
    /\ ReturnedResult /\ exch.family = "stream" /\ exch.returned.res.items # <<>>
    /\ exch.resp.status = 200 /\ exch.resp.body = ExpectedBody

\* The type of the last request has no entry in the family's registration table.
UnknownType ==
    exch.family # "none" /\ exch.type \notin DOMAIN Registered(exch.family).m

C4_ConditionalCaching ==
    /\ (ReturnedResult /\ EtagEnabled /\ exch.inm = <<>>) =>
            /\ exch.resp.status = 200
            /\ HasHeader(exch.resp.headers, "ETag")
            /\ HasHeader(exch.resp.headers, "Cache-Control")
    /\ (/\ ReturnedResult /\ EtagEnabled
        /\ validated.family = exch.family
        /\ validated.status = 200 /\ ~validated.conditional
        /\ validated.returned = exch.returned) =>
            /\ exch.resp.status = 304
            /\ HasHeader(exch.resp.headers, "ETag")
            /\ HasHeader(exch.resp.headers, "Cache-Control")
            /\ HasHeader(validated.headers, "Cache-Control")
            /\ exch.resp.headers["ETag"] = validated.headers["ETag"]
            /\ exch.resp.headers["Cache-Control"] = validated.headers["Cache-Control"]

\* A 200 without If-None-Match was followed by a 304 for its ETag, the handler returning the same list.
C4_Witness ==
    /\ ReturnedResult /\ EtagEnabled /\ ~exch.returned.res.nil
    /\ validated.family = exch.family /\ validated.status = 200 /\ ~validated.conditional
    /\ validated.returned = exch.returned
    /\ exch.inm = validated.headers["ETag"]
    /\ exch.resp.status = 304

\* C5: with ETag handling enabled, a request with If-None-Match: * whose handler
\* returns a result yields 304 whatever the result, with Cache-Control and ETag set.
C5_WildcardAlways304 ==
    (ReturnedResult /\ EtagEnabled /\ exch.inm = <<"*">>) =>
        /\ exch.resp.status = 304
        /\ HasHeader(exch.resp.headers, "Cache-Control") /\ exch.resp.headers["Cache-Control"] # <<>>
        /\ HasHeader(exch.resp.headers, "ETag") /\ exch.resp.headers["ETag"] # <<>>

\* If-None-Match: * was answered 304 for a non-empty catalog result.
C5_Witness ==
    /\ ReturnedResult /\ EtagEnabled /\ exch.inm = <<"*">>
    /\ exch.family = "catalog" /\ exch.returned.res.items # <<>>
    /\ exch.resp.status = 304

----------------------------------------------------------------------------
(* Claims about the manifest endpoint *)

\* The body tells the client that configuration is required.
ReportsConfigurationRequired(body) ==
    \E i \in 1..(Len(body) - 1) :
        body[i] = KeyTok("configurationRequired") /\ body[i + 1] = BoolTok(TRUE)
\* The request of g was answered 200, with a manifest.
Served(g) == reqs[g].pc = "done" /\ reqs[g].resp.status = StatusOK
\* The callback was invoked for the request of g and has returned.
Returned(g) == reqs[g].pc = "done" /\ reqs[g].called

\* C6: whatever the callbacks write to the manifests they are given, nested list
\* elements included, the canonical manifest stays the one supplied at startup,
\* every callback is handed a manifest equal to it, a request whose callback wrote
\* nothing is answered with it, and the manifest a callback holds changes only by
\* that callback's own writes.
C6_CanonicalManifestUnchanged ==
    /\ [](/\ DeepValue(manifest, heap) = declared
          /\ \A g \in Goroutines : reqs[g].called => reqs[g].given = declared
          /\ \A g \in Goroutines :
                Served(g) /\ reqs[g].muts = 0 => reqs[g].resp.body = PreSerialized(reqs[g].configured))
    /\ [][\A g \in Goroutines :
            reqs[g].pc = "callback" /\ reqs'[g].pc = "callback" /\ reqs'[g].muts = reqs[g].muts
                => DeepValue(reqs'[g].clone, heap') = DeepValue(reqs[g].clone, heap)]_vars

\* While the callback of g1 has changed an option of an extra of a catalog in its
\* manifest, the request of g2, which went through its callback, was answered.
C6_Witness ==
    /\ reqs["g1"].pc = "callback" /\ reqs["g1"].muts = 1
    /\ declared.ID = FullManifest(TRUE).ID
    /\ DeepValue(reqs["g1"].clone, heap).Catalogs.elems[1].Extra.elems[1].Options.elems[1] = "changed"
    /\ Served("g2") /\ reqs["g2"].called

\* C7: every 200 response on /{userData}/manifest.json reports
\* configurationRequired = false, with or without a callback, also when the
\* callback set the flag to true on its clone.
C7_ConfiguredReportsFalse ==
    \A g \in Goroutines :
        Served(g) /\ reqs[g].configured => ~ReportsConfigurationRequired(reqs[g].resp.body)

\* The manifest was declared with the flag false, the callback set it to true and
\* the request on the configured path was answered 200.
C7_Witness ==
    \E g \in Goroutines :
        /\ Served(g) /\ reqs[g].configured /\ reqs[g].called
        /\ ~declared.BehaviorHints.ConfigurationRequired /\ reqs[g].flag /\ reqs[g].muts = 1

C9_CallbackStatus ==
    \A g \in Goroutines :
        Returned(g) =>
            IF reqs[g].returned >= 400
            THEN /\ reqs[g].resp.status = reqs[g].returned
                 /\ DOMAIN reqs[g].resp.headers = {}
                 /\ reqs[g].resp.body = SendStatus(reqs[g].returned).body
            ELSE /\ reqs[g].resp.status = StatusOK
                 /\ "Content-Type" \in DOMAIN reqs[g].resp.headers
                 /\ reqs[g].resp.body[1] = PunctTok("{") /\ reqs[g].resp.body[2] = KeyTok("id")
                 /\ reqs[g].muts = 0 => reqs[g].resp.body = PreSerialized(reqs[g].configured)

\* One callback returned 400 and one returned -1.
C9_Witness ==
    /\ Returned("g1") /\ reqs["g1"].returned = 400 /\ reqs["g1"].resp.status = 400
    /\ Returned("g2") /\ reqs["g2"].returned = -1 /\ reqs["g2"].resp.status = StatusOK

----------------------------------------------------------------------------
(* Claims about Manifest.clone *)

\* C10: clone(m) equals m structurally; a write to any element of any nested
\* list of the clone leaves m unchanged, and a write through m leaves the clone unchanged.
C10_CloneIndependence ==
    /\ [](copy # NoManifest /\ touched = [m |-> 0, c |-> 0]
            => DeepValue(copy, heap) = DeepValue(manifest, heap))
    /\ [][/\ touched'.c # touched.c => DeepValue(manifest', heap') = DeepValue(manifest, heap)
          /\ touched'.m # touched.m => DeepValue(copy', heap') = DeepValue(copy, heap)]_vars

\* An option of an extra of a catalog was changed in the clone, a resource item's
\* type in the original, and neither shows in the other.
C10_Witness ==
    /\ copy # NoManifest /\ copy.Name = "Some addon"
    /\ touched = [m |-> 1, c |-> 1]
    /\ DeepValue(copy, heap).Catalogs.elems[1].Extra.elems[1].Options.elems[1] = "changed"
    /\ DeepValue(manifest, heap).Catalogs.elems[1].Extra.elems[1].Options.elems[1] = "foo"
    /\ DeepValue(manifest, heap).ResourceItems.elems[1].Types.elems[1] = "changed"
    /\ DeepValue(copy, heap).ResourceItems.elems[1].Types.elems[1] = "movie"

\* The places of the nil slices of a manifest value, at every nesting level.
AbsentPaths(v) ==
    LET path(f, i, g, j, k) == [f |-> f, i |-> i, g |-> g, j |-> j, k |-> k]
        ris == v.ResourceItems.elems
        cats == v.Catalogs.elems
    IN {path(f, 0, "", 0, "") : f \in {f \in {"ResourceItems", "Types", "Catalogs", "IDprefixes"} : v[f].nil}}
        \cup {path("ResourceItems", i, g, 0, "") :
                i \in {i \in 1..Len(ris) : ris[i].Types.nil}, g \in {"Types"}}
        \cup {path("ResourceItems", i, g, 0, "") :
                i \in {i \in 1..Len(ris) : ris[i].IDprefixes.nil}, g \in {"IDprefixes"}}
        \cup {path("Catalogs", i, "Extra", 0, "") : i \in {i \in 1..Len(cats) : cats[i].Extra.nil}}
        \cup UNION {{path("Catalogs", i, "Extra", j, "Options") :
                        j \in {j \in 1..Len(cats[i].Extra.elems) : cats[i].Extra.elems[j].Options.nil}} :
                    i \in 1..Len(cats)}

\* C11: every list that is nil in the manifest, at any nesting level, is nil in
\* its clone, and the clone of Manifest{} is Manifest{}.
C11_ClonePreservesAbsence ==
    copy # NoManifest /\ touched = [m |-> 0, c |-> 0]
        => /\ AbsentPaths(DeepValue(manifest, heap)) \subseteq AbsentPaths(DeepValue(copy, heap))
           /\ DeepValue(manifest, heap) = EmptyManifest => DeepValue(copy, heap) = EmptyManifest

\* The manifest with nil lists next to empty ones was cloned: the types of its
\* first resource item are nil in the clone, the ID prefixes of that item are empty.
C11_Witness ==
    /\ copy # NoManifest /\ touched = [m |-> 0, c |-> 0]
    /\ DeepValue(manifest, heap) = MixedManifest
    /\ DeepValue(copy, heap).ResourceItems.elems[1].Types = NilSlice
    /\ DeepValue(copy, heap).ResourceItems.elems[1].IDprefixes = Slice(<<>>)
    /\ DeepValue(copy, heap).Catalogs.elems[2].Extra.elems[1].Options = NilSlice

----------------------------------------------------------------------------
(* Claims about user data *)

\* The last request got as far as looking at its user data segment.
ReachedUserData ==
    /\ udx.site # "none"
    /\ udx.site \in {"catalog", "stream"} => udx.type \in HandledTypes /\ ~PathUnescape(udx.id).err
\* The request was handed on with, or DecodeUserData returned, a pointer to v.
DecodedTo(v) ==
    IF udx.site = "DecodeUserData"
    THEN udx.returned.outcome = "ok" /\ udx.returned.userData = PointerTo(v)
    ELSE udx.status = 0 /\ udx.invoked /\ udx.userData = PointerTo(v)

\* C12: with Base64 user data and a registered type, the URL-safe Base64 encoding
\* of the JSON of every value v decodes to v, without padding and with its one
\* or two '=' characters.
C12_Base64RoundTrip ==
    \A v \in UserDataValues :
        LET enc == EncodeToString(MarshalUserData(v))
        IN ReachedUserData /\ opts.UserDataIsBase64 /\ userDataType
                /\ udx.segment \in {enc, enc \o StdPadding(enc)}
            => DecodedTo(v)

\* C13: an empty user data segment is no data and no error: the callback or
\* handler receives nil when a type is registered and the empty string when none
\* is, and Addon.DecodeUserData returns nil without an error.
C13_EmptySegmentIsNoData ==
    ReachedUserData /\ udx.segment = <<>>
        => IF udx.site = "DecodeUserData"
           THEN udx.returned.outcome = "ok" /\ udx.returned.userData = NilValue
           ELSE /\ udx.status = 0 /\ udx.invoked
                /\ udx.userData = IF userDataType THEN NilValue ELSE StringValue(<<>>)

\* The last request was seen by one of the three endpoints, a type is registered
\* and the segment is not empty and fails in the byte decoding or in the JSON step.
BadUserDataAtEndpoint ==
    /\ udx.site \in {"manifest", "catalog", "stream"} /\ userDataType
    /\ udx.segment \in UndecodableSegments(opts.UserDataIsBase64) \cup NotJSONSegments(opts.UserDataIsBase64)

\* C14 as stated: such a request is answered 400 and neither the callback nor a
\* handler is invoked.
C14_BadUserDataAlways400 ==
    BadUserDataAtEndpoint => udx.status = StatusBadRequest /\ ~udx.invoked

\* C14: such a request never reaches the callback or a handler; it is answered
\* 400, except that a catalog or stream request whose media ID unescapes and
\* whose type has no handler is answered 404 before its user data is looked at.
C14_BadUserDataRejected ==
    BadUserDataAtEndpoint
        => /\ ~udx.invoked
           /\ udx.status = IF /\ udx.site \in {"catalog", "stream"}
                              /\ ~PathUnescape(udx.id).err /\ udx.type \notin HandledTypes
                           THEN StatusNotFound ELSE StatusBadRequest

\* A catalog request for a handled type whose segment decodes to bytes that are
\* not JSON was answered 400 without a handler call.
C14_Witness ==
    /\ BadUserDataAtEndpoint /\ udx.site = "catalog" /\ udx.type \in HandledTypes
    /\ ~PathUnescape(udx.id).err
    /\ udx.segment \in NotJSONSegments(opts.UserDataIsBase64)
    /\ udx.status = StatusBadRequest /\ ~udx.invoked

----------------------------------------------------------------------------
(* Claims about the route matcher *)

\* The text of a byte string.
Chars(b) == [i \in 1..Len(b) |-> Printable[b[i] - 31]]
\* The last request was a stream request and a pattern is configured.
StreamWithPattern == rx.kind = "stream" /\ streamIDregexString # ""

\* C15: with a stream-ID pattern configured, on both stream routes a handler is
\* invoked only for a request whose ID matches the pattern (as it stands in the
\* path, and as the handler unescapes it), and a request whose ID does not match
\* is answered 400 without reaching a later middleware or a handler.
C15_StreamIDValidation ==
    StreamWithPattern =>
        /\ rx.invoked => /\ MatchString(streamIDregexString, rx.id)
                         /\ MatchString(streamIDregexString, Chars(PathUnescape(rx.id).bytes))
        /\ ~MatchString(streamIDregexString, rx.id) =>
                rx.status = StatusBadRequest /\ ~rx.next /\ ~rx.invoked

\* A stream request with user data for a handled type whose ID is not an IMDb ID was rejected.
C15_Witness ==
    /\ StreamWithPattern /\ rx.hasUserData /\ rx.type = "movie"
    /\ rx.id = <<"g", "a", "r", "b", "a", "g", "e">>
    /\ rx.status = StatusBadRequest /\ ~rx.invoked

\* C16: when the manifest declares the configuration required, every catalog
\* or stream request on a route without user data is answered 400 and reaches
\* neither a later middleware nor a handler, whatever its type and ID.
C16_MandatoryConfiguration ==
    (rx.kind # "none" /\ requiresUserData /\ ~rx.hasUserData) =>
        rx.status = StatusBadRequest /\ ~rx.next /\ ~rx.invoked

\* A well-formed stream request without user data was rejected because the
\* configuration is required.
C16_Witness ==
    /\ rx.kind = "stream" /\ requiresUserData /\ ~rx.hasUserData
    /\ rx.type = "movie" /\ rx.id = IMDbID
    /\ rx.status = StatusBadRequest /\ ~rx.next

----------------------------------------------------------------------------
(* Claims about request logging *)

\* The line of the request was emitted.
Logged == lg.lines # <<>>

\* C17: with request logging enabled every request eventually has exactly one
\* "Handled request" line, which carries the status the chain left, whatever
\* the lookup of the media name came to.
C17_EventuallyOneLine ==
    (lg.pc = "next" /\ ~opts.DisableRequestLogging) ~>
        (lg.pc = "logged" /\ Len(lg.lines) = 1 /\ lg.lines[1].status = lg.status)

\* C18: the line of a request is not emitted while the goroutine of its lookup
\* is still at work, and when that goroutine found the title the line carries it.
C18_LogAfterLookup ==
    Logged =>
        /\ lg.g \in {"none", "done"}
        /\ lg.g = "done" => /\ lg.lines[1].hasMediaName
                            /\ lg.lines[1].mediaName = MediaNameOf(lg.lookup.meta)

\* A stream request whose lookup goroutine found the movie was logged with the title.
C18_Witness ==
    /\ Logged /\ lg.g = "done" /\ lg.lookup.meta = MovieMeta
    /\ lg.lines[1].mediaName = <<"Big Buck Bunny", " (", "2008", ")">>

----------------------------------------------------------------------------
(* Claims about the caching options *)

\* ETag handling or public caching is enabled for a family whose cache age is zero.
CachingWithoutAge(o) ==
    \/ o.HandleEtagCatalogs /\ o.CacheAgeCatalogs = 0
    \/ o.HandleEtagStreams /\ o.CacheAgeStreams = 0
    \/ o.CachePublicCatalogs /\ o.CacheAgeCatalogs = 0
    \/ o.CachePublicStreams /\ o.CacheAgeStreams = 0

\* C19: with ETag handling or public caching enabled for a family whose cache
\* age is zero, NewAddon returns an error: no addon is ever serving and no
\* request is ever handled.
C19_CachingWithoutAgeRejected ==
    CachingWithoutAge(opts) => phase \in {"new", "rejected"} /\ exch = NoExchange

\* NewAddon was called with handlers, ETag handling for streams and no cache
\* age for them, and returned its error.
C19_Witness ==
    /\ phase = "rejected"
    /\ ~(catalogHandlers.nil /\ streamHandlers.nil)
    /\ opts.HandleEtagStreams /\ opts.CacheAgeStreams = 0
    /\ ~opts.CachePublicStreams /\ ~opts.CachePublicCatalogs /\ ~opts.HandleEtagCatalogs

\* The configured cache age of a family.
CacheAgeOf(family) == IF family = "catalog" THEN opts.CacheAgeCatalogs ELSE opts.CacheAgeStreams

\* C20: no response of a family whose cache age is zero carries a Cache-Control
\* or an ETag header, whatever its status and the settings of the other family.
C20_NoCachingHeadersWithoutAge ==
    (exch.family # "none" /\ CacheAgeOf(exch.family) = 0) =>
        /\ ~HasHeader(exch.resp.headers, "Cache-Control")
        /\ ~HasHeader(exch.resp.headers, "ETag")

\* A catalog request was answered 200 without caching headers while the
\* streams are cached with ETags.
C20_Witness ==
    /\ exch.family = "catalog" /\ opts.CacheAgeCatalogs = 0
    /\ opts.CacheAgeStreams # 0 /\ opts.HandleEtagStreams
    /\ exch.resp.status = StatusOK
    /\ ~HasHeader(exch.resp.headers, "Cache-Control") /\ ~HasHeader(exch.resp.headers, "ETag")

----------------------------------------------------------------------------
(* Claims about the Cinemeta client *)

\* C21: when Options.CinemetaClient is set, the addon NewAddon returns uses
\* that very client; it uses a client of its own only when none was supplied.
C21_SuppliedClientIsUsed ==
    cm.pc = "built" =>
        /\ opts.CinemetaClient # "nil" => cm.client = opts.CinemetaClient
        /\ cm.client = "own" => opts.CinemetaClient = "nil"

\* C22: a lookup by the client NewAddon made, of an ID it had stored at most
\* 30 days before, is answered from the cache without a request to Cinemeta.
C22_FreshEntryAnsweredFromCache ==
    (cm.pc = "built" /\ cm.client = "own" /\ cm.last.id # "" /\ cm.last.cached
        /\ cm.last.at - cm.last.created <= DefaultTTL) =>
        ~cm.last.remote /\ cm.last.found

----------------------------------------------------------------------------
(* Claims about the route matcher and the flags it sets *)

\* The last request was a stream request with a type and an ID, on a route
\* that is not closed because user data is required.
CheckedStreamRequest ==
    /\ rx.kind = "stream" /\ rx.type # "" /\ rx.id # <<>>
    /\ ~(requiresUserData /\ ~rx.hasUserData)

\* C23: the stream-ID pattern is applied to the percent-unescaped ID: a stream
\* request whose unescaped ID matches is passed on to the handler, one whose
\* unescaped ID does not match is answered 400.
C23_PatternOnUnescapedID ==
    (CheckedStreamRequest /\ ~PathUnescape(rx.id).err) =>
        IF MatchString(streamIDregexString, Chars(PathUnescape(rx.id).bytes))
        THEN rx.next
        ELSE rx.status = StatusBadRequest /\ ~rx.invoked

\* C26: for a request the matcher passes on, isConfigured is set exactly when
\* the route has the user data segment and isStream exactly when it is a
\* stream route; a request it rejects gets no flag and is not passed on.
C26_FlagsTellTheRoute ==
    rx.kind # "none" =>
        IF rx.next
        THEN /\ ("isConfigured" \in rx.locals) <=> rx.hasUserData
             /\ ("isStream" \in rx.locals) <=> (rx.kind = "stream")
        ELSE rx.locals = {} /\ rx.status = StatusBadRequest /\ ~rx.invoked

----------------------------------------------------------------------------
(* Claims about user data without a registered type, and the order of the checks *)

\* The last request came to the place where its user data is looked at, no
\* type is registered and its user data segment can be unescaped.
UntypedUserData ==
    /\ udx.site # "none" /\ ~userDataType
    /\ ~PathUnescape(udx.segment).err
    /\ udx.site \in {"catalog", "stream"} =>
            ~PathUnescape(udx.id).err /\ udx.type \in HandledTypes

\* C24: without a registered type the manifest callback and the catalog and
\* stream handlers are given, and Addon.DecodeUserData returns, the segment
\* percent-unescaped as a string, without an error.
C24_UntypedIsUnescapedString ==
    UntypedUserData =>
        IF udx.site = "DecodeUserData"
        THEN /\ udx.returned.outcome = "ok"
             /\ udx.returned.userData = StringValue(Chars(PathUnescape(udx.segment).bytes))
        ELSE /\ udx.invoked
             /\ udx.userData = StringValue(Chars(PathUnescape(udx.segment).bytes))

\* The last request was a catalog or stream request whose media ID cannot be unescaped.
BrokenMediaID == udx.site \in {"catalog", "stream"} /\ PathUnescape(udx.id).err

\* C25: a media ID that cannot be unescaped is answered 500 and no
\* handler is invoked.
C25_UnescapeFailureIs500 ==
    BrokenMediaID => udx.status = StatusInternalServerError /\ ~udx.invoked

\* The last request was a catalog or stream request, a type is registered and
\* the user data segment cannot be decoded to a value of it.
UndecodableAtHandler ==
    /\ udx.site \in {"catalog", "stream"} /\ userDataType
    /\ udx.segment \in UndecodableSegments(opts.UserDataIsBase64) \cup NotJSONSegments(opts.UserDataIsBase64)

\* C29 as stated: with undecodable user data a request for an unregistered
\* type is answered 404, one for a registered type 400 without a handler call.
C29_TypeLookupPrecedesDecoding ==
    UndecodableAtHandler =>
        IF udx.type \notin HandledTypes THEN udx.status = StatusNotFound
        ELSE udx.status = StatusBadRequest /\ ~udx.invoked

\* C29: with undecodable user data and a media ID that unescapes, a request
\* for an unregistered type is answered 404 and one for a registered type 400,
\* and no handler is invoked.
C29_TypeLookupThenDecoding ==
    (UndecodableAtHandler /\ ~PathUnescape(udx.id).err) =>
        /\ ~udx.invoked
        /\ IF udx.type \notin HandledTypes THEN udx.status = StatusNotFound
           ELSE udx.status = StatusBadRequest

\* A stream request for an unregistered type with a segment that is not an
\* encoding was answered 404.
C29_Witness ==
    /\ UndecodableAtHandler /\ udx.site = "stream" /\ udx.type \notin HandledTypes
    /\ udx.segment \in UndecodableSegments(opts.UserDataIsBase64)
    /\ ~PathUnescape(udx.id).err
    /\ udx.status = StatusNotFound /\ ~udx.invoked

----------------------------------------------------------------------------
(* Claims about the two ways the manifest endpoint serializes *)

\* The request of g was answered by the handler that has no callback, or by the
\* one whose callback returned 200 and wrote nothing to its manifest.
Untouched(g) ==
    /\ reqs[g].pc = "done"
    /\ IF manifestCallback
       THEN reqs[g].called /\ reqs[g].returned = StatusOK /\ reqs[g].muts = 0
       ELSE reqs[g].resp.status = StatusOK

\* C27: on both path variants the response of the handler without a callback
\* (the body serialized once at startup) and the response of the handler whose
\* callback returns 200 without touching its manifest (the clone serialized for
\* the request) are the same: the serialization of the declared manifest, with
\* configurationRequired forced to false on the user data path.
C27_PreSerializedEqualsPerRequest ==
    \A g \in Goroutines :
        Untouched(g) =>
            /\ reqs[g].resp = SendManifest(PreSerialized(reqs[g].configured))
            /\ reqs[g].resp.body = MarshalManifest(
                  IF reqs[g].configured
                  THEN [declared EXCEPT !.BehaviorHints.ConfigurationRequired = FALSE]
                  ELSE declared)

\* The manifest has absent and empty lists; the callback returned 200 on both
\* path variants without a write and both requests were answered.
C27_Witness ==
    /\ manifestCallback /\ declared.Types.nil /\ ~declared.Catalogs.nil
    /\ Untouched("g1") /\ reqs["g1"].configured
    /\ Untouched("g2") /\ ~reqs["g2"].configured
    /\ reqs["g1"].resp.status = StatusOK /\ reqs["g2"].resp.status = StatusOK

----------------------------------------------------------------------------
(* Claims about the accesses to the *fiber.Ctx of a request *)

\* An access to a part of the context of the request.
Read(part) == [part |-> part, write |-> FALSE]
Write(part) == [part |-> part, write |-> TRUE]

\* The accesses the lookup goroutine has before it: c.Params("type"),
\* c.Params("id") and c.Context(). Nothing orders them with the request's
\* goroutine, which only waits for wg.Done() after c.Next() has returned.
LookupAccesses ==
    IF lg.g = "running" THEN {Read("params"), Read("context")} ELSE {}

\* The accesses of the request's goroutine inside c.Next(): the context is
\* moved to the next matching route and its parameters, the handlers read the
\* parameters and the headers, the meta middleware sets c.Locals("meta") and
\* the handler writes the response.
ChainAccesses ==
    IF lg.pc = "next"
    THEN {Write("params"), Read("params"), Read("context"), Read("request"), Write("response")}
         \cup (IF opts.PutMetaInContext THEN {Write("locals")} ELSE {})
    ELSE {}

\* Two accesses to the same part, one of them a write.
Conflict(a, b) == a.part = b.part /\ (a.write \/ b.write)

\* C28: the lookup goroutine never has an access to the context before it
\* while the request's goroutine is inside c.Next(), and no access of the one
\* conflicts with an access of the other that is not ordered with it.
C28_NoConcurrentContextAccess ==
    /\ LookupAccesses = {} \/ ChainAccesses = {}
    /\ \A a \in LookupAccesses, b \in ChainAccesses : ~Conflict(a, b)

----------------------------------------------------------------------------
(* Claims about the ETag as a function of the result *)

\* The last response carries an ETag.
HasETag == exch.family # "none" /\ HasHeader(exch.resp.headers, "ETag")

\* The last request sent without If-None-Match.
Unconditional == [type |-> exch.type, id |-> exch.id, userData |-> exch.userData, inm |-> <<>>]

\* C30: the ETag of a response is the hash of the serialized result of its
\* handler and of nothing else; a response and the one before it whose handlers
\* returned equal results carry equal ETags, whatever their family, type and
\* If-None-Match; and a 304 carries the ETag the 200 for the same request
\* without If-None-Match carries.
C30_ETagFunctionOfResult ==
    /\ HasETag =>
          /\ ReturnedResult
          /\ exch.resp.headers["ETag"] = ETagOf(MarshalResult(exch.returned.res))
    /\ (/\ HasETag /\ validated.family # "none" /\ HasHeader(validated.headers, "ETag")
        /\ validated.returned.res = exch.returned.res) =>
          exch.resp.headers["ETag"] = validated.headers["ETag"]
    /\ (ReturnedResult /\ exch.resp.status = StatusNotModified) =>
          LET ok == RespondResult(HandlerParams(exch.family), Unconditional, exch.returned.res)
          IN /\ ok.status = StatusOK /\ HasHeader(ok.headers, "ETag")
             /\ HasETag /\ exch.resp.headers["ETag"] = ok.headers["ETag"]

\* A catalog 200 and the stream 304 that validated its ETag carry one ETag
\* for one result.
C30_Witness ==
    /\ HasETag /\ ReturnedResult /\ exch.family = "stream"
    /\ validated.family = "catalog" /\ validated.status = StatusOK
    /\ validated.returned = exch.returned /\ ~exch.returned.res.nil
    /\ exch.resp.status = StatusNotModified
    /\ exch.resp.headers["ETag"] = validated.headers["ETag"]

====
